---- MODULE Spec2Model ----
(***************************************************************************)
(* HiveShield (hive_shield/src/shield.rs): the message-inspection and      *)
(* policy-decision pipeline.  A pipeline instance owns an immutable        *)
(* ShieldConfig and three atomic counters; process_outgoing and            *)
(* process_incoming inspect a text and return a ShieldResult.              *)
(*                                                                         *)
(* A text is abstracted to what the inspectors see in it: how many secret  *)
(* matches, how many PII matches, the threat level the assessor assigns,   *)
(* and the set of rule patterns that occur in it.  The inspectors          *)
(* (SecretScanner, PiiDetector, VulnerabilityAssessor, PolicyEngine) live  *)
(* outside shield.rs and are modelled from their contracts.                *)
(* processing_time_ms is a wall-clock measurement and is left out of the   *)
(* result record.                                                          *)
(***************************************************************************)
EXTENDS Integers, Sequences, FiniteSets, TLC

VARIABLES config, pii_detections, secrets_blocked, threats_caught, last, ncalls,
          threads, uncloaked, parsed, workflows, run_history, outcome, uuids,
          marks

vars == <<config, pii_detections, secrets_blocked, threats_caught, last, ncalls,
          threads, uncloaked, parsed, workflows, run_history, outcome, uuids,
          marks>>

\* the state each specification below works on
counterVars == <<pii_detections, secrets_blocked, threats_caught>>
callVars == <<last, ncalls>>
threadVars == <<threads>>
uncloakVars == <<uncloaked>>
serdeVars == <<parsed>>
automationVars == <<workflows, run_history, outcome, uuids, marks>>

(* ---------------------------- bounds ----------------------------------- *)
\* size of a text: the number of findings (secret matches, PII matches, a
\* threat, rule patterns occurring) it can hold
MaxLen == 3
\* most calls made on one pipeline instance
MaxCalls == 1

(* ---------------------------- texts ------------------------------------ *)
\* rule patterns: two valid regular expressions and one that does not compile
ValidPatterns == {"p1", "p2"}
Patterns == ValidPatterns \cup {"bad("}

ThreatLevels == {"None", "High", "Critical"}
SafeLevels == {"None"}

\* matches: the patterns whose source text occurs in the message (for the
\* pattern that does not compile: its characters occur literally)
TextSize(text) ==
    text.secrets + text.pii + Cardinality(text.matches)
    + (IF text.threat \in SafeLevels THEN 0 ELSE 1)

Texts == {text \in [secrets : 0..MaxLen, pii : 0..MaxLen,
                    threat : ThreatLevels, matches : SUBSET Patterns] :
             TextSize(text) <= MaxLen}

Providers == {"openai", "ollama", "restricted", "unlisted"}

(* ---------------------------- collaborators ---------------------------- *)
Range(n) == [i \in 1..n |-> i]

\* SecretScanner::scan_text
ScanText(text) == Range(text.secrets)

\* PiiDetector::detect
Detect(text) == Range(text.pii)

\* PiiDetector::cloak: every PII span replaced by a placeholder, one map
\* entry per placeholder
Cloak(text) ==
    [text |-> [secrets |-> text.secrets, pii |-> 0, threat |-> text.threat,
               matches |-> text.matches, placeholders |-> text.pii],
     cloak_map |-> Range(text.pii)]

\* VulnerabilityAssessor::assess_prompt / assess_response
AssessPrompt(text) ==
    [threat_level |-> text.threat, safe_to_send |-> text.threat \in SafeLevels]

AssessResponse(text) ==
    [threat_level |-> text.threat, safe_to_send |-> text.threat \in SafeLevels]

\* regex::Regex::new(pattern).is_ok()
RegexNewOk(pattern) == pattern \in ValidPatterns

\* Regex::is_match
IsMatch(pattern, text) == pattern \in text.matches

ClassRank(c) ==
    CASE c = "Public" -> 0
      [] c = "Internal" -> 1
      [] c = "Confidential" -> 2
      [] c = "Restricted" -> 3
      [] c = "Secret" -> 4

DefaultPolicy ==
    [provider_trust |-> "Untrusted", max_classification |-> "Internal",
     require_pii_cloaking |-> TRUE]

\* PolicyEngine::check_access
CheckAccess(policies, provider, classification, contains_pii) ==
    LET policy == IF provider \in DOMAIN policies THEN policies[provider]
                  ELSE DefaultPolicy
    IN  IF ClassRank(classification) > ClassRank(policy.max_classification)
        THEN [allowed |-> FALSE,
              reason |-> <<"classification exceeds policy of ", provider>>,
              required_actions |-> {}]
        ELSE IF contains_pii /\ policy.provider_trust = "Untrusted"
        THEN [allowed |-> FALSE,
              reason |-> <<"PII not permitted for ", provider>>,
              required_actions |-> {}]
        ELSE [allowed |-> TRUE,
              reason |-> <<"Access granted">>,
              required_actions |-> IF policy.require_pii_cloaking
                                   THEN {"cloak_pii"} ELSE {}]

(* ---------------------------- configuration ---------------------------- *)
\* tests::test_config, plus a provider whose ceiling is below Internal
TestPolicies ==
    [p \in {"openai", "ollama", "restricted"} |->
        CASE p = "openai" ->
               [provider_trust |-> "Trusted", max_classification |-> "Confidential",
                require_pii_cloaking |-> TRUE]
          [] p = "ollama" ->
               [provider_trust |-> "Local", max_classification |-> "Restricted",
                require_pii_cloaking |-> FALSE]
          [] p = "restricted" ->
               [provider_trust |-> "Trusted", max_classification |-> "Public",
                require_pii_cloaking |-> TRUE]]

\* UserRule (the id is a fresh UUID and is not read by the pipeline)
RulePool ==
    {[name |-> "A", pattern |-> "p1", active |-> TRUE],
     [name |-> "B", pattern |-> "p2", active |-> TRUE],
     [name |-> "C", pattern |-> "bad(", active |-> TRUE],
     [name |-> "D", pattern |-> "p1", active |-> FALSE],
     [name |-> "E", pattern |-> "bad(", active |-> FALSE]}

RuleLists ==
    {<<>>} \cup {<<r>> : r \in RulePool}
           \cup {<<r, s>> : r \in RulePool, s \in RulePool}

\* ShieldConfig::default() has no policy: every provider gets the default one
NoPolicies == [p \in {} |-> DefaultPolicy]

Rule(name) == CHOOSE r \in RulePool : r.name = name

\* ShieldConfig: every combination of the toggles with no rule and with two
\* rules, ShieldConfig::default(), and every rule list with the toggles on
ShieldConfig ==
    [enable_secret_scan : BOOLEAN, enable_vulnerability_check : BOOLEAN,
     enable_pii_detection : BOOLEAN, access_policies : {TestPolicies},
     user_rules : {<<>>, <<Rule("A"), Rule("B")>>}]
    \cup
    {[enable_secret_scan |-> TRUE, enable_vulnerability_check |-> TRUE,
      enable_pii_detection |-> TRUE, access_policies |-> NoPolicies,
      user_rules |-> <<>>]}
    \cup
    [enable_secret_scan : {TRUE}, enable_vulnerability_check : {TRUE},
     enable_pii_detection : {TRUE}, access_policies : {TestPolicies},
     user_rules : RuleLists]

(* ---------------------------- results ----------------------------------- *)
\* ShieldAction
Allow == [kind |-> "Allow"]
CloakAndAllow(cloaked) == [kind |-> "CloakAndAllow", cloaked |-> cloaked]
Block(reason) == [kind |-> "Block", reason |-> reason]
Warn(reason) == [kind |-> "Warn", reason |-> reason]

\* Option<Assessment>: None is the empty sequence, Some(a) is <<a>>
None == <<>>
Some(a) == <<a>>

\* ShieldResult
ShieldResult(action, pii_found, secrets_found, assessment) ==
    [action |-> action, pii_found |-> pii_found,
     secrets_found |-> secrets_found, assessment |-> assessment]

\* What one call did: its result, the inspector calls it made, in order, and
\* what it added to each counter with fetch_add.
Outcome(result, consulted, add_secrets, add_threats, add_pii) ==
    [result |-> result, consulted |-> consulted, add_secrets |-> add_secrets,
     add_threats |-> add_threats, add_pii |-> add_pii]

SecretsReason == <<"Message contains secrets/credentials and cannot be sent">>
RuleReason(name) == <<"Blocked by custom rule: ", name>>
ThreatReason(level) == <<"Prompt blocked: threat level '", level, "' detected">>
PiiWarnReason ==
    <<"PII detected in outgoing message but cloaking not required by policy">>

(* ---------------------------- process_outgoing ------------------------- *)
\* (mutant) the toggle test inverted
OutgoingSecretsInverted(cfg, text) ==
    IF ~cfg.enable_secret_scan THEN ScanText(text) ELSE <<>>

\* 1. secret scanning
OutgoingSecrets(cfg, text) ==
    IF cfg.enable_secret_scan THEN ScanText(text) ELSE <<>>

\* (mutant) the active flag is not looked at
RuleBlocksIgnoringActive(rule, text) ==
    /\ RegexNewOk(rule.pattern)
    /\ IsMatch(rule.pattern, text)

\* (mutant) a pattern that does not compile blocks instead of being skipped
RuleBlocksOnInvalid(rule, text) ==
    /\ rule.active
    /\ (RegexNewOk(rule.pattern) => IsMatch(rule.pattern, text))

\* one iteration of the rule loop: does this rule block the text?
RuleBlocks(rule, text) ==
    /\ rule.active
    /\ RegexNewOk(rule.pattern)
    /\ IsMatch(rule.pattern, text)

\* 1b. the rule loop: index of the first rule that blocks, 0 if none does
RECURSIVE RuleLoop(_, _, _)
RuleLoop(rules, text, i) ==
    IF i > Len(rules) THEN 0
    ELSE IF RuleBlocks(rules[i], text) THEN i
    ELSE RuleLoop(rules, text, i + 1)

\* (mutant) the loop is left at the first active rule that does not compile
FirstBlockingRuleStopsOnInvalid(rules, text) ==
    LET i == RuleLoop(rules, text, 1)
        invalid == {j \in DOMAIN rules :
                       rules[j].active /\ ~RegexNewOk(rules[j].pattern)}
    IN  IF i # 0 /\ \A j \in invalid : i < j THEN i ELSE 0

FirstBlockingRule(rules, text) == RuleLoop(rules, text, 1)

\* 2. vulnerability assessment
OutgoingAssessment(cfg, text) ==
    IF cfg.enable_vulnerability_check THEN Some(AssessPrompt(text)) ELSE None

\* (mutant) the detector is run whatever the toggle says
OutgoingPiiAlways(cfg, text) == Detect(text)

\* (mutant) with the detector off the message is taken to hold PII
OutgoingPiiAssumedWhenOff(cfg, text) ==
    IF cfg.enable_pii_detection THEN Detect(text) ELSE <<1>>

\* 3. PII detection
OutgoingPii(cfg, text) ==
    IF cfg.enable_pii_detection THEN Detect(text) ELSE <<>>

\* (mutant) cloaks whenever the policy asks for it, PII or not
FinalActionCloakOnTag(decision, contains_pii, text) ==
    IF "cloak_pii" \in decision.required_actions
    THEN CloakAndAllow(Cloak(text))
    ELSE IF contains_pii THEN Warn(PiiWarnReason)
    ELSE Allow

\* (mutant) the warning branch is missing
FinalActionNoWarn(decision, contains_pii, text) ==
    IF "cloak_pii" \in decision.required_actions /\ contains_pii
    THEN CloakAndAllow(Cloak(text))
    ELSE Allow

\* 5. final action selection
FinalAction(decision, contains_pii, text) ==
    IF "cloak_pii" \in decision.required_actions /\ contains_pii
    THEN CloakAndAllow(Cloak(text))
    ELSE IF contains_pii THEN Warn(PiiWarnReason)
    ELSE Allow

FinalConsulted(decision, contains_pii) ==
    IF "cloak_pii" \in decision.required_actions /\ contains_pii
    THEN <<[fn |-> "cloak"]>> ELSE <<>>

\* (mutant) the classification handed to the policy engine is Public
OutgoingClassificationPublic == "Public"

\* the classification handed to the policy engine
OutgoingClassification == "Internal"

\* 4. access-control policy check and what follows it
PolicyStage(cfg, text, provider, secrets_found, assessment, pii_found, trace) ==
    LET contains_pii == pii_found # <<>>
        classification == OutgoingClassification
        decision == CheckAccess(cfg.access_policies, provider, classification,
                                contains_pii)
        call == [fn |-> "check_access", provider |-> provider,
                 classification |-> classification,
                 contains_pii |-> contains_pii, decision |-> decision]
    IN  IF ~decision.allowed
        THEN Outcome(ShieldResult(Block(decision.reason), pii_found,
                                  secrets_found, assessment),
                     trace \o <<call>>, 0, 0, Len(pii_found))
        ELSE Outcome(ShieldResult(FinalAction(decision, contains_pii, text),
                                  pii_found, secrets_found, assessment),
                     trace \o <<call>> \o FinalConsulted(decision, contains_pii),
                     0, 0, Len(pii_found))

PiiStage(cfg, text, provider, secrets_found, assessment, trace) ==
    LET pii_found == OutgoingPii(cfg, text)
        trace2 == IF cfg.enable_pii_detection
                  THEN trace \o <<[fn |-> "detect"]>> ELSE trace
    IN  PolicyStage(cfg, text, provider, secrets_found, assessment, pii_found,
                    trace2)

\* (mutant) an unsafe assessment is counted but the call goes on
ThreatStageNoReturn(cfg, text, provider, secrets_found, trace) ==
    LET assessment == OutgoingAssessment(cfg, text)
        trace2 == IF cfg.enable_vulnerability_check
                  THEN trace \o <<[fn |-> "assess_prompt"]>> ELSE trace
        out == PiiStage(cfg, text, provider, secrets_found, assessment, trace2)
    IN  IF assessment # None /\ ~assessment[1].safe_to_send
        THEN [out EXCEPT !.add_threats = 1]
        ELSE out

\* (mutant) the threat Block carries no assessment
ThreatStageDropsAssessment(cfg, text, provider, secrets_found, trace) ==
    LET assessment == OutgoingAssessment(cfg, text)
        trace2 == IF cfg.enable_vulnerability_check
                  THEN trace \o <<[fn |-> "assess_prompt"]>> ELSE trace
    IN  IF assessment # None /\ ~assessment[1].safe_to_send
        THEN Outcome(ShieldResult(Block(ThreatReason(assessment[1].threat_level)),
                                  <<>>, secrets_found, None),
                     trace2, 0, 1, 0)
        ELSE PiiStage(cfg, text, provider, secrets_found, assessment, trace2)

ThreatStage(cfg, text, provider, secrets_found, trace) ==
    LET assessment == OutgoingAssessment(cfg, text)
        trace2 == IF cfg.enable_vulnerability_check
                  THEN trace \o <<[fn |-> "assess_prompt"]>> ELSE trace
    IN  IF assessment # None /\ ~assessment[1].safe_to_send
        THEN Outcome(ShieldResult(Block(ThreatReason(assessment[1].threat_level)),
                                  <<>>, secrets_found, Some(assessment[1])),
                     trace2, 0, 1, 0)
        ELSE PiiStage(cfg, text, provider, secrets_found, assessment, trace2)

\* (mutant) Regex::new(..).unwrap(): a pattern that does not compile panics
RulesStageUnwrap(cfg, text, provider, secrets_found, trace) ==
    LET i == FirstBlockingRule(cfg.user_rules, text)
        invalid == {j \in DOMAIN cfg.user_rules :
                       /\ cfg.user_rules[j].active
                       /\ ~RegexNewOk(cfg.user_rules[j].pattern)
                       /\ (i = 0 \/ j < i)}
    IN  IF invalid # {}
        THEN Outcome([panicked |-> "unwrap on an Err value"],
                     trace, 0, 0, 0)
        ELSE IF i # 0
        THEN Outcome(ShieldResult(Block(RuleReason(cfg.user_rules[i].name)),
                                  <<>>, secrets_found, None),
                     trace, 0, 0, 0)
        ELSE ThreatStage(cfg, text, provider, secrets_found, trace)

RulesStage(cfg, text, provider, secrets_found, trace) ==
    LET i == FirstBlockingRule(cfg.user_rules, text)
    IN  IF i # 0
        THEN Outcome(ShieldResult(Block(RuleReason(cfg.user_rules[i].name)),
                                  <<>>, secrets_found, None),
                     trace, 0, 0, 0)
        ELSE ThreatStage(cfg, text, provider, secrets_found, trace)

\* (mutant) a secrets Block counts as one, however many matches
ProcessOutgoingCountsOne(cfg, text, provider) ==
    LET secrets_found == OutgoingSecrets(cfg, text)
        trace == IF cfg.enable_secret_scan
                 THEN <<[fn |-> "scan_text"]>> ELSE <<>>
    IN  IF secrets_found # <<>>
        THEN Outcome(ShieldResult(Block(SecretsReason), <<>>, secrets_found, None),
                     trace, 1, 0, 0)
        ELSE RulesStage(cfg, text, provider, secrets_found, trace)

\* (mutant) a single secret match is let through to the later stages
ProcessOutgoingBlocksOnTwo(cfg, text, provider) ==
    LET secrets_found == OutgoingSecrets(cfg, text)
        trace == IF cfg.enable_secret_scan
                 THEN <<[fn |-> "scan_text"]>> ELSE <<>>
    IN  IF Len(secrets_found) > 1
        THEN Outcome(ShieldResult(Block(SecretsReason), <<>>, secrets_found, None),
                     trace, Len(secrets_found), 0, 0)
        ELSE RulesStage(cfg, text, provider, secrets_found, trace)

\* HiveShield::process_outgoing
ProcessOutgoing(cfg, text, provider) ==
    LET secrets_found == OutgoingSecrets(cfg, text)
        trace == IF cfg.enable_secret_scan
                 THEN <<[fn |-> "scan_text"]>> ELSE <<>>
    IN  IF secrets_found # <<>>
        THEN Outcome(ShieldResult(Block(SecretsReason), <<>>, secrets_found, None),
                     trace, Len(secrets_found), 0, 0)
        ELSE RulesStage(cfg, text, provider, secrets_found, trace)

(* ---------------------------- process_incoming ------------------------- *)
IncomingSecrets(cfg, response) ==
    IF cfg.enable_secret_scan THEN ScanText(response) ELSE <<>>

IncomingAssessment(cfg, response) ==
    IF cfg.enable_vulnerability_check THEN Some(AssessResponse(response))
    ELSE None

\* the detector is run whatever enable_pii_detection says
IncomingPii(cfg, response) == Detect(response)

Unsafe(assessment) == assessment # None /\ ~assessment[1].safe_to_send

\* (mutant) the PII warning is pushed before the secrets warning
WarningsPiiFirst(secrets_found, pii_found, assessment) ==
    (IF pii_found # <<>> THEN <<"Response contains PII">> ELSE <<>>)
    \o (IF secrets_found # <<>>
        THEN <<"Response contains secrets/credentials">> ELSE <<>>)
    \o (IF Unsafe(assessment)
        THEN <<"Response contains potential injection">> ELSE <<>>)

Warnings(secrets_found, pii_found, assessment) ==
    (IF secrets_found # <<>>
     THEN <<"Response contains secrets/credentials">> ELSE <<>>)
    \o (IF pii_found # <<>> THEN <<"Response contains PII">> ELSE <<>>)
    \o (IF Unsafe(assessment)
        THEN <<"Response contains potential injection">> ELSE <<>>)

\* warnings.join("; ")
RECURSIVE Join(_, _)
Join(parts, sep) ==
    IF Len(parts) = 0 THEN <<>>
    ELSE IF Len(parts) = 1 THEN parts
    ELSE <<Head(parts), sep>> \o Join(Tail(parts), sep)

\* (mutant) a response with findings is blocked
IncomingActionBlocks(warnings) ==
    IF warnings = <<>> THEN Allow ELSE Block(Join(warnings, "; "))

IncomingAction(warnings) ==
    IF warnings = <<>> THEN Allow ELSE Warn(Join(warnings, "; "))

\* (mutant) the call stops at the first finding, as process_outgoing does
ProcessIncomingShortCircuit(cfg, response) ==
    LET secrets_found == IncomingSecrets(cfg, response)
        assessment == IncomingAssessment(cfg, response)
        pii_found == IncomingPii(cfg, response)
    IN  IF secrets_found # <<>>
        THEN Outcome(ShieldResult(IncomingAction(Warnings(secrets_found, <<>>,
                                                          None)),
                                  <<>>, secrets_found, None),
                     <<[fn |-> "scan_text"]>>, Len(secrets_found), 0, 0)
        ELSE Outcome(ShieldResult(IncomingAction(Warnings(secrets_found,
                                                          pii_found, assessment)),
                                  pii_found, secrets_found, assessment),
                     <<[fn |-> "detect"]>>, 0,
                     IF Unsafe(assessment) THEN 1 ELSE 0, Len(pii_found))

\* HiveShield::process_incoming
ProcessIncoming(cfg, response) ==
    LET secrets_found == IncomingSecrets(cfg, response)
        assessment == IncomingAssessment(cfg, response)
        pii_found == IncomingPii(cfg, response)
        trace == (IF cfg.enable_secret_scan
                  THEN <<[fn |-> "scan_text"]>> ELSE <<>>)
                 \o (IF cfg.enable_vulnerability_check
                     THEN <<[fn |-> "assess_response"]>> ELSE <<>>)
                 \o <<[fn |-> "detect"]>>
    IN  Outcome(ShieldResult(IncomingAction(Warnings(secrets_found, pii_found,
                                                     assessment)),
                             pii_found, secrets_found, assessment),
                trace, Len(secrets_found),
                IF Unsafe(assessment) THEN 1 ELSE 0, Len(pii_found))

(* ---------------------------- uncloak_response ------------------------- *)
\* (mutant) only the first match is replaced (str::replacen(from, to, 1))
ReplaceFirst(s, from, to) ==
    IF \E i \in 1..(Len(s) - Len(from) + 1) :
          SubSeq(s, i, i + Len(from) - 1) = from
    THEN LET i == CHOOSE i \in 1..(Len(s) - Len(from) + 1) :
                     /\ SubSeq(s, i, i + Len(from) - 1) = from
                     /\ \A j \in 1..(i - 1) :
                           SubSeq(s, j, j + Len(from) - 1) # from
         IN  SubSeq(s, 1, i - 1) \o to \o SubSeq(s, i + Len(from), Len(s))
    ELSE s

\* A string is a sequence of characters.
\* str::replace(from, to): every non-overlapping match of from, found left to
\* right, is replaced by to; the empty pattern matches before every character
\* and at the end.
RECURSIVE Replace(_, _, _)
Replace(s, from, to) ==
    IF from = <<>>
    THEN IF s = <<>> THEN to
         ELSE to \o <<Head(s)>> \o Replace(Tail(s), from, to)
    ELSE IF Len(s) < Len(from) THEN s
    ELSE IF SubSeq(s, 1, Len(from)) = from
    THEN to \o Replace(SubSeq(s, Len(from) + 1, Len(s)), from, to)
    ELSE <<Head(s)>> \o Replace(Tail(s), from, to)

\* (mutant) the loop breaks after the first pair that changed the text
RECURSIVE UncloakLoopBreaks(_, _, _)
UncloakLoopBreaks(result, cloak_map, i) ==
    IF i > Len(cloak_map) THEN result
    ELSE LET replaced == Replace(result, cloak_map[i][1], cloak_map[i][2])
         IN  IF replaced # result THEN replaced
             ELSE UncloakLoopBreaks(result, cloak_map, i + 1)

\* the loop of uncloak_response: cloak_map is the sequence of
\* (replacement, original) pairs in the order the map hands them out
RECURSIVE UncloakLoop(_, _, _)
UncloakLoop(result, cloak_map, i) ==
    IF i > Len(cloak_map) THEN result
    ELSE UncloakLoop(Replace(result, cloak_map[i][1], cloak_map[i][2]),
                     cloak_map, i + 1)

\* HiveShield::uncloak_response
UncloakResponse(response, context) == UncloakLoop(response, context.cloak_map, 1)

(* ---------------------------- the state machine ------------------------ *)
NoCall == [op |-> "none"]

\* the state of the specifications that are not running
IdleThreads == threads = <<>>
IdleUncloak == uncloaked = NoCall
IdleSerde == parsed = NoCall
IdleAutomation ==
    /\ workflows = <<>>
    /\ run_history = <<>>
    /\ outcome = NoCall
    /\ uuids = 0
    /\ marks = <<>>

\* HiveShield::new(config)
Init ==
    /\ config \in ShieldConfig
    /\ pii_detections = 0
    /\ secrets_blocked = 0
    /\ threats_caught = 0
    /\ last = NoCall
    /\ ncalls = 0
    /\ IdleThreads
    /\ IdleUncloak
    /\ IdleSerde
    /\ IdleAutomation

Apply(out) ==
    /\ secrets_blocked' = secrets_blocked + out.add_secrets
    /\ threats_caught' = threats_caught + out.add_threats
    /\ pii_detections' = pii_detections + out.add_pii

CallProcessOutgoing ==
    /\ last = NoCall
    /\ ncalls < MaxCalls
    /\ \E text \in Texts, provider \in Providers :
          LET out == ProcessOutgoing(config, text, provider)
          IN  /\ Apply(out)
              /\ last' = [op |-> "process_outgoing", text |-> text,
                          provider |-> provider, result |-> out.result,
                          consulted |-> out.consulted]
    /\ ncalls' = ncalls + 1
    /\ UNCHANGED <<config, threadVars, uncloakVars, serdeVars, automationVars>>

CallProcessIncoming ==
    /\ last = NoCall
    /\ ncalls < MaxCalls
    /\ \E response \in Texts :
          LET out == ProcessIncoming(config, response)
          IN  /\ Apply(out)
              /\ last' = [op |-> "process_incoming", text |-> response,
                          provider |-> "", result |-> out.result,
                          consulted |-> out.consulted]
    /\ ncalls' = ncalls + 1
    /\ UNCHANGED <<config, threadVars, uncloakVars, serdeVars, automationVars>>

\* the caller is done with the ShieldResult it was handed
DropResult ==
    /\ last # NoCall
    /\ last' = NoCall
    /\ UNCHANGED <<config, counterVars, ncalls, threadVars, uncloakVars,
                   serdeVars, automationVars>>

Next == CallProcessOutgoing \/ CallProcessIncoming \/ DropResult

Spec == Init /\ [][Next]_vars

(* ---------------------------- concurrent calls ------------------------- *)
\* Two threads share one pipeline instance (&self).  A step of a thread is
\* the code up to and including its next access to a counter: everything
\* else a call touches is its own arguments and locals.
Threads == {"t1", "t2"}

\* size of the texts handed to concurrent calls
MaxConcLen == 2

ConcTexts ==
    {text \in Texts : TextSize(text) <= MaxConcLen /\ text.matches \subseteq {"p1"}}

ConcConfigs ==
    {cfg \in ShieldConfig :
        /\ cfg.user_rules = <<Rule("A"), Rule("B")>>
        /\ cfg.enable_secret_scan
        /\ cfg.enable_pii_detection}
    \cup {cfg \in ShieldConfig : cfg.access_policies = NoPolicies}

CounterReaders ==
    {"pii_detection_count", "secrets_blocked_count", "threats_caught_count"}

NoText == [secrets |-> 0, pii |-> 0, threat |-> "None", matches |-> {}]

\* the context of tests::uncloak_response_restores_pii, in small
EchoedContext ==
    [text |-> <<"m", "#">>, cloak_map |-> << <<(<<"#">>), (<<"A">>)>> >>]

ConcCalls ==
    [op : {"process_outgoing"}, text : ConcTexts,
     provider : {"openai", "ollama", "unlisted"}]
    \cup [op : {"process_incoming"}, text : ConcTexts, provider : {""}]
    \cup [op : CounterReaders \cup {"uncloak_response"}, text : {NoText},
          provider : {""}]

IdleThread == [pc |-> "idle"]

Running(call, pc) ==
    [pc |-> pc, call |-> call, secrets_found |-> <<>>, assessment |-> None,
     pii_found |-> <<>>, result |-> NoCall]

Returned(thread, result) == [thread EXCEPT !.pc = "done", !.result = result]

\* (mutant) fetch_sub in place of fetch_add
FetchAddSub(counter, val) == counter - val

\* (mutant) the counter is overwritten (store) instead of added to
FetchAddStore(counter, val) == val

\* AtomicUsize::fetch_add(val, Ordering::Relaxed): one atomic read-modify-write
FetchAdd(counter, val) == counter + val

\* (mutant) the text under inspection is kept in a field of the shared
\* instance, where a concurrent call overwrites it
OwnTextShared(t) ==
    LET others == {u \in Threads :
                      /\ u # t
                      /\ threads[u].pc \notin {"idle"}
                      /\ threads[u].call.op
                            \in {"process_outgoing", "process_incoming"}}
    IN  IF others = {} THEN threads[t].call.text
        ELSE threads[CHOOSE u \in others : TRUE].call.text

\* the text argument of the call thread t is in
OwnText(t) == threads[t].call.text

InitConc ==
    /\ config \in ConcConfigs
    /\ pii_detections = 0
    /\ secrets_blocked = 0
    /\ threats_caught = 0
    /\ last = NoCall
    /\ ncalls = 0
    /\ threads = [t \in Threads |-> IdleThread]
    /\ IdleUncloak
    /\ IdleSerde
    /\ IdleAutomation

FirstPc(op) ==
    CASE op = "process_outgoing" -> "out_secrets"
      [] op = "process_incoming" -> "in_secrets"
      [] op = "uncloak_response" -> "uncloak"
      [] OTHER -> "load"

Invoke(t) ==
    /\ threads[t].pc = "idle"
    /\ \E call \in ConcCalls :
          threads' = [threads EXCEPT ![t] = Running(call, FirstPc(call.op))]
    /\ UNCHANGED <<config, counterVars, callVars, uncloakVars, serdeVars,
                   automationVars>>

\* process_outgoing, 1: secret scan, block and count
OutSecretsStep(t) ==
    /\ threads[t].pc = "out_secrets"
    /\ LET secrets_found == OutgoingSecrets(config, OwnText(t))
       IN  IF secrets_found # <<>>
           THEN /\ secrets_blocked' = FetchAdd(secrets_blocked, Len(secrets_found))
                /\ threads' = [threads EXCEPT ![t] =
                       Returned(@, ShieldResult(Block(SecretsReason), <<>>,
                                                secrets_found, None))]
           ELSE /\ threads' = [threads EXCEPT ![t].pc = "out_threat",
                                              ![t].secrets_found = secrets_found]
                /\ UNCHANGED secrets_blocked
    /\ UNCHANGED <<config, pii_detections, threats_caught, callVars,
                   uncloakVars, serdeVars, automationVars>>

\* process_outgoing, 1b and 2: custom rules, assessment, block and count
OutThreatStep(t) ==
    /\ threads[t].pc = "out_threat"
    /\ LET i == FirstBlockingRule(config.user_rules, OwnText(t))
           assessment == OutgoingAssessment(config, OwnText(t))
       IN  IF i # 0
           THEN /\ threads' = [threads EXCEPT ![t] =
                       Returned(@, ShieldResult(
                                      Block(RuleReason(config.user_rules[i].name)),
                                      <<>>, @.secrets_found, None))]
                /\ UNCHANGED threats_caught
           ELSE IF Unsafe(assessment)
           THEN /\ threats_caught' = FetchAdd(threats_caught, 1)
                /\ threads' = [threads EXCEPT ![t] =
                       Returned(@, ShieldResult(
                                      Block(ThreatReason(assessment[1].threat_level)),
                                      <<>>, @.secrets_found, Some(assessment[1])))]
           ELSE /\ threads' = [threads EXCEPT ![t].pc = "out_pii",
                                              ![t].assessment = assessment]
                /\ UNCHANGED threats_caught
    /\ UNCHANGED <<config, pii_detections, secrets_blocked, callVars,
                   uncloakVars, serdeVars, automationVars>>

\* process_outgoing, 3 to 5: PII detection and count, policy, final action
OutPiiStep(t) ==
    /\ threads[t].pc = "out_pii"
    /\ LET pii_found == OutgoingPii(config, OwnText(t))
           contains_pii == pii_found # <<>>
           decision == CheckAccess(config.access_policies,
                                   threads[t].call.provider,
                                   OutgoingClassification, contains_pii)
           action == IF ~decision.allowed THEN Block(decision.reason)
                     ELSE FinalAction(decision, contains_pii, OwnText(t))
       IN  /\ pii_detections' = IF contains_pii
                                 THEN FetchAdd(pii_detections, Len(pii_found))
                                 ELSE pii_detections
           /\ threads' = [threads EXCEPT ![t] =
                  Returned(@, ShieldResult(action, pii_found, @.secrets_found,
                                           @.assessment))]
    /\ UNCHANGED <<config, secrets_blocked, threats_caught, callVars,
                   uncloakVars, serdeVars, automationVars>>

\* process_incoming: the three inspections, then the secrets counter
InSecretsStep(t) ==
    /\ threads[t].pc = "in_secrets"
    /\ LET secrets_found == IncomingSecrets(config, OwnText(t))
       IN  /\ secrets_blocked' = IF secrets_found # <<>>
                                 THEN FetchAdd(secrets_blocked, Len(secrets_found))
                                 ELSE secrets_blocked
           /\ threads' = [threads EXCEPT
                  ![t].pc = "in_pii",
                  ![t].secrets_found = secrets_found,
                  ![t].assessment = IncomingAssessment(config, OwnText(t)),
                  ![t].pii_found = IncomingPii(config, OwnText(t))]
    /\ UNCHANGED <<config, pii_detections, threats_caught, callVars,
                   uncloakVars, serdeVars, automationVars>>

\* process_incoming: the PII counter
InPiiStep(t) ==
    /\ threads[t].pc = "in_pii"
    /\ pii_detections' = IF threads[t].pii_found # <<>>
                         THEN FetchAdd(pii_detections, Len(threads[t].pii_found))
                         ELSE pii_detections
    /\ threads' = [threads EXCEPT ![t].pc = "in_threats"]
    /\ UNCHANGED <<config, secrets_blocked, threats_caught, callVars,
                   uncloakVars, serdeVars, automationVars>>

\* process_incoming: the threats counter, the warnings and the result
InThreatsStep(t) ==
    /\ threads[t].pc = "in_threats"
    /\ threats_caught' = IF Unsafe(threads[t].assessment)
                         THEN FetchAdd(threats_caught, 1)
                         ELSE threats_caught
    /\ threads' = [threads EXCEPT ![t] =
          Returned(@, ShieldResult(
                         IncomingAction(Warnings(@.secrets_found, @.pii_found,
                                                 @.assessment)),
                         @.pii_found, @.secrets_found, @.assessment))]
    /\ UNCHANGED <<config, pii_detections, secrets_blocked, callVars,
                   uncloakVars, serdeVars, automationVars>>

\* (mutant) the readers return a value cached at construction
CounterLoadStale(op) == 0

\* pii_detection_count, secrets_blocked_count, threats_caught_count
CounterLoad(op) ==
    CASE op = "pii_detection_count" -> pii_detections
      [] op = "secrets_blocked_count" -> secrets_blocked
      [] op = "threats_caught_count" -> threats_caught

\* (mutant) the read is a swap(0): it hands out the value and resets it
LoadStepSwap(t) ==
    /\ threads[t].pc = "load"
    /\ threads' = [threads EXCEPT ![t] =
          Returned(@, [value |-> CounterLoad(@.call.op)])]
    /\ pii_detections' = IF threads[t].call.op = "pii_detection_count"
                         THEN 0 ELSE pii_detections
    /\ secrets_blocked' = IF threads[t].call.op = "secrets_blocked_count"
                          THEN 0 ELSE secrets_blocked
    /\ threats_caught' = IF threads[t].call.op = "threats_caught_count"
                         THEN 0 ELSE threats_caught
    /\ UNCHANGED <<config, callVars, uncloakVars, serdeVars, automationVars>>

LoadStep(t) ==
    /\ threads[t].pc = "load"
    /\ threads' = [threads EXCEPT ![t] =
          Returned(@, [value |-> CounterLoad(@.call.op)])]
    /\ UNCHANGED <<config, counterVars, callVars, uncloakVars, serdeVars,
                   automationVars>>

\* the thread that goes on to read a counter when its process_outgoing or
\* process_incoming call has returned (the threads are interchangeable)
Followers == {"t1"}

ReadAfterReturn(t) ==
    /\ t \in Followers
    /\ threads[t].pc = "done"
    /\ threads[t].call.op \in {"process_outgoing", "process_incoming"}
    /\ "read" \notin DOMAIN threads[t]
    /\ \E op \in CounterReaders :
          threads' = [threads EXCEPT ![t] =
             [pc |-> "done", call |-> @.call,
              secrets_found |-> @.secrets_found, assessment |-> @.assessment,
              pii_found |-> @.pii_found, result |-> @.result,
              read |-> op, seen |-> CounterLoad(op)]]
    /\ UNCHANGED <<config, counterVars, callVars, uncloakVars, serdeVars,
                   automationVars>>

\* uncloak_response has no self: it cannot reach the counters
UncloakStep(t) ==
    /\ threads[t].pc = "uncloak"
    /\ threads' = [threads EXCEPT ![t] =
          Returned(@, [value |-> UncloakResponse(EchoedContext.text,
                                                 EchoedContext)])]
    /\ UNCHANGED <<config, counterVars, callVars, uncloakVars, serdeVars,
                   automationVars>>

NextConc ==
    \E t \in Threads :
        \/ Invoke(t)
        \/ OutSecretsStep(t)
        \/ OutThreatStep(t)
        \/ OutPiiStep(t)
        \/ InSecretsStep(t)
        \/ InPiiStep(t)
        \/ InThreatsStep(t)
        \/ LoadStep(t)
        \/ ReadAfterReturn(t)
        \/ UncloakStep(t)

SpecConc == InitConc /\ [][NextConc]_vars

(* ---------------------------- reading a call --------------------------- *)
IsOutgoing == last.op = "process_outgoing"
IsIncoming == last.op = "process_incoming"

\* the inspector calls the last call made
Fns == {last.consulted[i].fn : i \in DOMAIN last.consulted}
PolicyCalls ==
    {i \in DOMAIN last.consulted : last.consulted[i].fn = "check_access"}
PolicyCall == last.consulted[CHOOSE i \in PolicyCalls : TRUE]

\* what is in the text handed to the last call, and in the configuration
HasSecret == last.text.secrets > 0
ThreatIn == last.text.threat \notin SafeLevels
Hits ==
    {i \in DOMAIN config.user_rules :
        /\ config.user_rules[i].active
        /\ config.user_rules[i].pattern \in ValidPatterns
        /\ config.user_rules[i].pattern \in last.text.matches}
FirstHit == CHOOSE i \in Hits : \A j \in Hits : i <= j

\* which stage of process_outgoing blocks first, from the inputs alone
SecretStageBlocks == config.enable_secret_scan /\ HasSecret
RuleStageBlocks == ~SecretStageBlocks /\ Hits # {}
ThreatStageBlocks ==
    /\ ~SecretStageBlocks
    /\ Hits = {}
    /\ config.enable_vulnerability_check
    /\ ThreatIn
ReachesPolicy ==
    ~SecretStageBlocks /\ Hits = {} /\ ~(config.enable_vulnerability_check /\ ThreatIn)

IsRuleBlock ==
    /\ last.result.action.kind = "Block"
    /\ Head(last.result.action.reason) = "Blocked by custom rule: "

(* ---------------------------- C1 --------------------------------------- *)
\* C1 as stated: for any text holding a credential pattern the scanner
\* recognises, process_outgoing returns Block with a non-empty secrets_found,
\* whatever the provider and the policies.
C1_SecretVetoAbsolute ==
    (IsOutgoing /\ HasSecret) =>
        /\ last.result.action.kind = "Block"
        /\ last.result.secrets_found # <<>>

\* C1 (amended): on a pipeline whose enable_secret_scan is true, for any text
\* holding a credential pattern the scanner recognises, process_outgoing
\* returns Block with a non-empty secrets_found, whatever the provider and
\* the policies; it never returns Allow, CloakAndAllow or Warn.
C1_SecretVetoWhenEnabled ==
    (IsOutgoing /\ config.enable_secret_scan /\ HasSecret) =>
        /\ last.result.action.kind = "Block"
        /\ last.result.action.kind \notin {"Allow", "CloakAndAllow", "Warn"}
        /\ last.result.secrets_found # <<>>
        /\ Len(last.result.secrets_found) = last.text.secrets

C1_Witness ==
    /\ IsOutgoing
    /\ config.enable_secret_scan
    /\ HasSecret
    /\ last.provider = "ollama"
    /\ last.result.action.kind = "Block"

(* ---------------------------- C2 --------------------------------------- *)
\* C2: the action of every process_incoming result is Allow or Warn, never
\* Block and never CloakAndAllow, however many inspectors trigger.
C2_InboundNeverBlocks ==
    IsIncoming => last.result.action.kind \in {"Allow", "Warn"}

C2_Witness ==
    /\ IsIncoming
    /\ last.result.secrets_found # <<>>
    /\ last.result.pii_found # <<>>
    /\ Unsafe(last.result.assessment)
    /\ last.result.action.kind = "Warn"

(* ---------------------------- C3 --------------------------------------- *)
\* C3: process_outgoing short-circuits in the order secret scan, custom
\* rules, threat assessment, PII detection, policy check: the Block reason is
\* that of the first stage that blocks and no later stage is run.
C3_ShortCircuitOrder ==
    IsOutgoing =>
        /\ SecretStageBlocks =>
              /\ last.result.action = Block(SecretsReason)
              /\ Fns = {"scan_text"}
        /\ RuleStageBlocks =>
              /\ last.result.action =
                    Block(RuleReason(config.user_rules[FirstHit].name))
              /\ Fns \cap {"assess_prompt", "detect", "check_access", "cloak"} = {}
        /\ ThreatStageBlocks =>
              /\ last.result.action = Block(ThreatReason(last.text.threat))
              /\ Fns \cap {"detect", "check_access", "cloak"} = {}
        /\ last.result.action.kind = "Block" =>
              \/ SecretStageBlocks
              \/ RuleStageBlocks
              \/ ThreatStageBlocks
              \/ /\ PolicyCalls # {}
                 /\ ~PolicyCall.decision.allowed
                 /\ last.result.action.reason = PolicyCall.decision.reason

\* a secret, a matching rule, an unsafe prompt and a denying policy at once
C3_Witness ==
    /\ IsOutgoing
    /\ SecretStageBlocks
    /\ \E i \in DOMAIN config.user_rules :
          /\ config.user_rules[i].active
          /\ config.user_rules[i].pattern \in ValidPatterns
          /\ config.user_rules[i].pattern \in last.text.matches
    /\ config.enable_vulnerability_check
    /\ ThreatIn
    /\ last.provider = "restricted"
    /\ last.result.action = Block(SecretsReason)

(* ---------------------------- C4 --------------------------------------- *)
WithoutInactive(rules) == SelectSeq(rules, LAMBDA r : r.active)

\* C4: when the secret stage did not block, the call is blocked by a custom
\* rule iff some rule is active, valid and matches; the reason names the
\* first such rule; inactive rules never change the result.
C4_CustomRules ==
    (IsOutgoing /\ ~SecretStageBlocks) =>
        /\ IsRuleBlock <=> Hits # {}
        /\ Hits # {} =>
              last.result.action =
                 Block(<<"Blocked by custom rule: ",
                         config.user_rules[FirstHit].name>>)
        /\ last.result =
              ProcessOutgoing(
                 [config EXCEPT !.user_rules = WithoutInactive(@)],
                 last.text, last.provider).result

\* an inactive rule whose pattern matches comes first, the second rule blocks
C4_Witness ==
    /\ IsOutgoing
    /\ ~SecretStageBlocks
    /\ Len(config.user_rules) = 2
    /\ ~config.user_rules[1].active
    /\ config.user_rules[1].pattern \in last.text.matches
    /\ last.result.action = Block(RuleReason(config.user_rules[2].name))

(* ---------------------------- C5 --------------------------------------- *)
IsInvalidRule(r) == r.active /\ r.pattern \notin ValidPatterns
WithoutInvalid(rules) == SelectSeq(rules, LAMBDA r : ~IsInvalidRule(r))

\* C5: an active rule whose pattern is not a valid regular expression never
\* matches: every process_outgoing call returns the result, and adds to the
\* counters, what it would under the configuration without that rule.
C5_InvalidPatternIsNoOp ==
    [][(last = NoCall /\ last'.op = "process_outgoing") =>
          LET out == ProcessOutgoing(
                        [config EXCEPT !.user_rules = WithoutInvalid(@)],
                        last'.text, last'.provider)
          IN  /\ last'.result = out.result
              /\ last'.consulted = out.consulted
              /\ secrets_blocked' = secrets_blocked + out.add_secrets
              /\ threats_caught' = threats_caught + out.add_threats
              /\ pii_detections' = pii_detections + out.add_pii]_vars

\* the first rule does not compile though its text occurs in the message;
\* the rule after it is still evaluated and blocks
C5_Witness ==
    /\ IsOutgoing
    /\ Len(config.user_rules) = 2
    /\ IsInvalidRule(config.user_rules[1])
    /\ config.user_rules[1].pattern \in last.text.matches
    /\ last.result.action = Block(RuleReason(config.user_rules[2].name))

(* ---------------------------- C6 --------------------------------------- *)
PiiFound == last.result.pii_found # <<>>
PolicyAllowed == PolicyCalls # {} /\ PolicyCall.decision.allowed
CloakTag == "cloak_pii" \in PolicyCall.decision.required_actions

\* C6: when no stage blocks and the policy decision is allowed, the action is
\* CloakAndAllow(cloak(text)) if the cloak tag is required and PII was found,
\* Warn if PII was found and the tag is absent, Allow if no PII was found
\* (tag or not), and then pii_found and secrets_found are empty.
C6_FinalAction ==
    (IsOutgoing /\ ReachesPolicy /\ PolicyAllowed) =>
        /\ (CloakTag /\ PiiFound) =>
              last.result.action =
                 [kind |-> "CloakAndAllow",
                  cloaked |-> [text |-> [secrets |-> last.text.secrets,
                                         pii |-> 0,
                                         threat |-> last.text.threat,
                                         matches |-> last.text.matches,
                                         placeholders |-> last.text.pii],
                               cloak_map |-> Range(last.text.pii)]]
        /\ (~CloakTag /\ PiiFound) =>
              last.result.action =
                 [kind |-> "Warn",
                  reason |-> <<"PII detected in outgoing message but cloaking not required by policy">>]
        /\ ~PiiFound =>
              /\ last.result.action = [kind |-> "Allow"]
              /\ last.result.pii_found = <<>>
              /\ last.result.secrets_found = <<>>

\* the policy asks for cloaking, no PII was found: plain Allow
C6_Witness ==
    /\ IsOutgoing
    /\ PolicyAllowed
    /\ CloakTag
    /\ ~PiiFound
    /\ last.result.action.kind = "Allow"

(* ---------------------------- C7 --------------------------------------- *)
\* C7: when no earlier stage blocked, check_access is called exactly once,
\* with the provider, the classification Internal and contains_pii =
\* (pii_found non-empty); a denial gives Block with the engine's reason, the
\* pii_found and assessment computed so far attached, and no cloaking.
C7_PolicyStage ==
    (IsOutgoing /\ ReachesPolicy) =>
        /\ Cardinality(PolicyCalls) = 1
        /\ PolicyCall.provider = last.provider
        /\ PolicyCall.classification = "Internal"
        /\ PolicyCall.contains_pii = PiiFound
        /\ PolicyCall.decision =
              CheckAccess(config.access_policies, last.provider, "Internal",
                          PiiFound)
        /\ ~PolicyCall.decision.allowed =>
              /\ last.result.action =
                    [kind |-> "Block", reason |-> PolicyCall.decision.reason]
              /\ last.result.pii_found =
                    (IF config.enable_pii_detection
                     THEN Range(last.text.pii) ELSE <<>>)
              /\ last.result.assessment =
                    (IF config.enable_vulnerability_check
                     THEN <<[threat_level |-> last.text.threat,
                             safe_to_send |-> TRUE]>>
                     ELSE <<>>)
              /\ "cloak" \notin Fns

\* a denial with PII found and an assessment made
C7_Witness ==
    /\ IsOutgoing
    /\ ReachesPolicy
    /\ ~PolicyCall.decision.allowed
    /\ PiiFound
    /\ last.result.assessment # <<>>
    /\ last.result.action.kind = "Block"

(* ---------------------------- C8 --------------------------------------- *)
\* C8: a process_outgoing result with PII found is Block, CloakAndAllow or
\* Warn, never Allow; a CloakAndAllow or Warn result has PII found and an
\* allowed policy decision.
C8_PiiBlockedMaskedOrPermitted ==
    IsOutgoing =>
        /\ PiiFound =>
              last.result.action.kind \in {"Block", "CloakAndAllow", "Warn"}
        /\ last.result.action.kind \in {"CloakAndAllow", "Warn"} =>
              PiiFound /\ PolicyAllowed

C8_Witness ==
    /\ IsOutgoing
    /\ PiiFound
    /\ last.result.action.kind = "Warn"

(* ---------------------------- C9 --------------------------------------- *)
\* C9: with enable_pii_detection = false, process_outgoing on a PII-bearing
\* message on which nothing else blocks (no secret, rule, threat or policy
\* denial) returns Allow with an empty pii_found, also when the provider's
\* policy requires cloaking: the detector is not run, contains_pii handed to
\* the policy is false, and the text is never cloaked.
C9_PiiDetectionDisabled ==
    (IsOutgoing /\ ~config.enable_pii_detection /\ last.text.pii > 0) =>
        /\ "detect" \notin Fns
        /\ "cloak" \notin Fns
        /\ last.result.pii_found = <<>>
        /\ last.result.action.kind # "CloakAndAllow"
        /\ PolicyCalls # {} => ~PolicyCall.contains_pii
        /\ (ReachesPolicy /\ PolicyAllowed) =>
              last.result.action = [kind |-> "Allow"]

C9_Witness ==
    /\ IsOutgoing
    /\ ~config.enable_pii_detection
    /\ last.text.pii > 0
    /\ last.provider = "openai"
    /\ CloakTag
    /\ last.result.action.kind = "Allow"

(* ---------------------------- C10 -------------------------------------- *)
HasWarning(w) ==
    /\ last.result.action.kind = "Warn"
    /\ \E i \in DOMAIN last.result.action.reason :
          last.result.action.reason[i] = w

\* C10: with a toggle off, after any sequence of calls the inspector's
\* counter is still 0 and every result has an empty finding of that
\* inspector and no warning or block caused by it.
C10_DisabledToggleSuppresses ==
    /\ ~config.enable_pii_detection =>
          /\ pii_detections = 0
          /\ last # NoCall =>
                /\ last.result.pii_found = <<>>
                /\ ~HasWarning("Response contains PII")
                /\ ~HasWarning(PiiWarnReason[1])
                /\ last.result.action.kind # "CloakAndAllow"
    /\ ~config.enable_secret_scan =>
          /\ secrets_blocked = 0
          /\ last # NoCall =>
                /\ last.result.secrets_found = <<>>
                /\ ~HasWarning("Response contains secrets/credentials")
                /\ last.result.action # Block(SecretsReason)
    /\ ~config.enable_vulnerability_check =>
          /\ threats_caught = 0
          /\ last # NoCall =>
                /\ last.result.assessment = <<>>
                /\ ~HasWarning("Response contains potential injection")
                /\ ~(/\ last.result.action.kind = "Block"
                     /\ Head(last.result.action.reason)
                           = "Prompt blocked: threat level '")

(* ---------------------------- C11 -------------------------------------- *)
\* the reason an inbound result must carry for the findings it reports
InboundReason(secret, pii, injection) ==
    CASE secret /\ pii /\ injection ->
           <<"Response contains secrets/credentials", "; ",
             "Response contains PII", "; ",
             "Response contains potential injection">>
      [] secret /\ pii /\ ~injection ->
           <<"Response contains secrets/credentials", "; ",
             "Response contains PII">>
      [] secret /\ ~pii /\ injection ->
           <<"Response contains secrets/credentials", "; ",
             "Response contains potential injection">>
      [] ~secret /\ pii /\ injection ->
           <<"Response contains PII", "; ",
             "Response contains potential injection">>
      [] secret /\ ~pii /\ ~injection ->
           <<"Response contains secrets/credentials">>
      [] ~secret /\ pii /\ ~injection -> <<"Response contains PII">>
      [] ~secret /\ ~pii /\ injection ->
           <<"Response contains potential injection">>
      [] OTHER -> <<>>

SameToggles(a, b) ==
    /\ a.enable_secret_scan = b.enable_secret_scan
    /\ a.enable_vulnerability_check = b.enable_vulnerability_check
    /\ a.enable_pii_detection = b.enable_pii_detection

\* C11: the action of process_incoming is Allow iff its result reports no
\* secret, no PII and no unsafe assessment, and otherwise Warn with the
\* triggered reasons joined by "; " in the order secrets, PII, injection; a
\* configuration that differs only in user_rules and access_policies gives
\* the same inbound result.
C11_InboundActionFromFindings ==
    IsIncoming =>
        LET secret == last.result.secrets_found # <<>>
            pii == last.result.pii_found # <<>>
            injection == /\ last.result.assessment # <<>>
                         /\ ~last.result.assessment[1].safe_to_send
        IN  /\ (last.result.action = [kind |-> "Allow"])
                   <=> (~secret /\ ~pii /\ ~injection)
            /\ (secret \/ pii \/ injection) =>
                   last.result.action =
                      [kind |-> "Warn",
                       reason |-> InboundReason(secret, pii, injection)]
            /\ \A other \in ShieldConfig :
                   SameToggles(other, config) =>
                      ProcessIncoming(other, last.text).result = last.result

C11_Witness ==
    /\ IsIncoming
    /\ config.user_rules = <<Rule("A"), Rule("B")>>
    /\ "p1" \in last.text.matches
    /\ last.result.secrets_found # <<>>
    /\ last.result.pii_found = <<>>
    /\ last.result.action =
          [kind |-> "Warn",
           reason |-> <<"Response contains secrets/credentials", "; ",
                        "Response contains potential injection">>]

(* ---------------------------- uncloak_response alone ------------------- *)
\* longest response handed to uncloak_response, longest text handed to cloak
MaxResp == 3

Alphabet == {"a", "b", "c"}

Strs(chars, n) == UNION {[1..k -> chars] : k \in 0..n}

\* placeholders of up to two characters (the empty one included), originals
\* of up to one character
CloakPairs == Strs(Alphabet, 2) \X Strs(Alphabet, 1)

\* CloakedText::cloak_map: at most two entries, distinct placeholders, in
\* every iteration order
CloakMaps ==
    {<<>>} \cup {<<p>> : p \in CloakPairs}
           \cup {m \in CloakPairs \X CloakPairs : m[1][1] # m[2][1]}

\* PiiDetector at the level of characters: "A" and "B" are sensitive values,
\* cloak replaces each by its token and lists the tokens it used
PiiValues == {"A", "B"}
PlainAlphabet == PiiValues \cup {"x", "#", "1"}

TokenOf(v) == IF v = "A" THEN <<"#", "1">> ELSE <<"#", "2">>

RECURSIVE CloakChars(_)
CloakChars(text) ==
    IF text = <<>> THEN <<>>
    ELSE (IF Head(text) \in PiiValues THEN TokenOf(Head(text))
          ELSE <<Head(text)>>) \o CloakChars(Tail(text))

\* the cloak maps cloak can hand out for a text: one entry per token used,
\* in either iteration order
CloakTexts(text) ==
    LET used == {text[i] : i \in DOMAIN text} \cap PiiValues
        entry(v) == <<TokenOf(v), <<v>>>>
        orders == IF used = {} THEN {<<>>}
                  ELSE IF Cardinality(used) = 1
                  THEN {<<entry(v)>> : v \in used}
                  ELSE {<<entry("A"), entry("B")>>, <<entry("B"), entry("A")>>}
    IN  {[text |-> CloakChars(text), cloak_map |-> m] : m \in orders}

InitUncloak ==
    /\ config = [enable_secret_scan |-> TRUE, enable_vulnerability_check |-> TRUE,
                 enable_pii_detection |-> TRUE, access_policies |-> NoPolicies,
                 user_rules |-> <<>>]
    /\ pii_detections = 0
    /\ secrets_blocked = 0
    /\ threats_caught = 0
    /\ last = NoCall
    /\ ncalls = 0
    /\ IdleThreads
    /\ uncloaked = NoCall
    /\ IdleSerde
    /\ IdleAutomation

\* uncloak_response(response, context) on any response and any map
CallUncloakResponse ==
    /\ uncloaked = NoCall
    /\ \E response \in Strs(Alphabet, MaxResp), cloak_map \in CloakMaps :
          LET context == [text |-> <<>>, cloak_map |-> cloak_map]
          IN  uncloaked' = [op |-> "uncloak_response", text |-> <<>>,
                            response |-> response, context |-> context,
                            result |-> UncloakResponse(response, context)]
    /\ UNCHANGED <<config, counterVars, callVars, threadVars, serdeVars,
                   automationVars>>

\* cloak(text) followed by uncloak_response(cloaked.text, cloaked)
CallCloakThenUncloak ==
    /\ uncloaked = NoCall
    /\ \E text \in Strs(PlainAlphabet, MaxResp) :
          \E cloaked \in CloakTexts(text) :
             uncloaked' = [op |-> "cloak", text |-> text,
                           response |-> cloaked.text, context |-> cloaked,
                           result |-> UncloakResponse(cloaked.text, cloaked)]
    /\ UNCHANGED <<config, counterVars, callVars, threadVars, serdeVars,
                   automationVars>>

DropUncloaked ==
    /\ uncloaked # NoCall
    /\ uncloaked' = NoCall
    /\ UNCHANGED <<config, counterVars, callVars, threadVars, serdeVars,
                   automationVars>>

NextUncloak == CallUncloakResponse \/ CallCloakThenUncloak \/ DropUncloaked

SpecUncloak == InitUncloak /\ [][NextUncloak]_vars

(* ---------------------------- deserializing a ShieldConfig ------------- *)
SerdeFields ==
    {"pii_config", "enable_secret_scan", "enable_vulnerability_check",
     "enable_pii_detection", "access_policies", "user_rules"}

\* impl Default for ShieldConfig
ShieldConfigDefault ==
    [pii_config |-> "PiiConfig::default()", enable_secret_scan |-> TRUE,
     enable_vulnerability_check |-> TRUE, enable_pii_detection |-> TRUE,
     access_policies |-> NoPolicies, user_rules |-> <<>>]

\* what #[derive(Default)] would give: false, empty
DerivedDefault ==
    [pii_config |-> "PiiConfig::default()", enable_secret_scan |-> FALSE,
     enable_vulnerability_check |-> FALSE, enable_pii_detection |-> FALSE,
     access_policies |-> NoPolicies, user_rules |-> <<>>]

\* a field of a document: absent (<<>>) or present with a value (<<v>>)
Opt(values) == {<<>>} \cup {<<v>> : v \in values}

\* configuration documents: every field absent or present, well typed
Documents ==
    [pii_config : Opt({"PiiConfig::default()", "custom"}),
     enable_secret_scan : Opt(BOOLEAN),
     enable_vulnerability_check : Opt(BOOLEAN),
     enable_pii_detection : Opt(BOOLEAN),
     access_policies : Opt({NoPolicies, TestPolicies}),
     user_rules : Opt({<<>>, <<Rule("A")>>})]

\* (mutant) absent fields are filled from the derived default
DeserializeDerived(doc) ==
    [f \in SerdeFields |->
        IF doc[f] = <<>> THEN DerivedDefault[f] ELSE doc[f][1]]

\* #[serde(default)] on the struct: a field absent from the document is
\* taken from ShieldConfig::default(), a present field from the document
Deserialize(doc) ==
    [f \in SerdeFields |->
        IF doc[f] = <<>> THEN ShieldConfigDefault[f] ELSE doc[f][1]]

InitSerde ==
    /\ config = [enable_secret_scan |-> TRUE, enable_vulnerability_check |-> TRUE,
                 enable_pii_detection |-> TRUE, access_policies |-> NoPolicies,
                 user_rules |-> <<>>]
    /\ pii_detections = 0
    /\ secrets_blocked = 0
    /\ threats_caught = 0
    /\ last = NoCall
    /\ ncalls = 0
    /\ IdleThreads
    /\ IdleUncloak
    /\ parsed = NoCall
    /\ IdleAutomation

\* serde_json::from_str::<ShieldConfig>(document)
CallDeserialize ==
    /\ parsed = NoCall
    /\ \E doc \in Documents :
          parsed' = [op |-> "from_str", doc |-> doc, config |-> Deserialize(doc)]
    /\ UNCHANGED <<config, counterVars, callVars, threadVars, uncloakVars,
                   automationVars>>

DropParsed ==
    /\ parsed # NoCall
    /\ parsed' = NoCall
    /\ UNCHANGED <<config, counterVars, callVars, threadVars, uncloakVars,
                   automationVars>>

NextSerde == CallDeserialize \/ DropParsed

SpecSerde == InitSerde /\ [][NextSerde]_vars

(* ---------------------------- AutomationService ------------------------ *)
\* hive_agents/src/automation.rs.  A workflow is its id, its steps, its
\* status, last_run (None or Some) and run_count; the timestamps, names and
\* descriptions are left out.
WorkflowStatus == {"Draft", "Active", "Paused", "Completed", "Failed"}

BUILTIN_DOGFOOD_WORKFLOW_ID == "builtin:hive-dogfood-v1"

\* the ensure_template calls of ensure_builtin_workflows, in order, with the
\* number of steps of each template
BuiltinTemplates ==
    <<[id |-> "builtin:build-test-v1", steps |-> 3],
      [id |-> "builtin:code-review-v1", steps |-> 3],
      [id |-> "builtin:debug-issue-v1", steps |-> 3],
      [id |-> "builtin:deploy-v1", steps |-> 3],
      [id |-> "builtin:research-impl-v1", steps |-> 4],
      [id |-> "builtin:full-pipeline-v1", steps |-> 5]>>

BuiltinIds ==
    {BUILTIN_DOGFOOD_WORKFLOW_ID}
    \cup {BuiltinTemplates[i].id : i \in DOMAIN BuiltinTemplates}

\* most runs simulated or recorded
MaxRuns == 2

\* Uuid::new_v4(): the n-th identifier handed out
UuidPool == <<"uuid-1">>

\* the ids the callers pass: two built-in ones and the created ones (an id
\* is unknown to the service before its workflow is there and after it is
\* deleted); the template is only ever deleted
CalledIds ==
    {BUILTIN_DOGFOOD_WORKFLOW_ID, "builtin:build-test-v1"}
    \cup {UuidPool[n] : n \in DOMAIN UuidPool}

RunIds == CalledIds \ {"builtin:build-test-v1"}

Workflow(id, steps, status) ==
    [id |-> id, steps |-> Range(steps), status |-> status,
     last_run |-> "None", run_count |-> 0]

HasWorkflow(wfs, id) == \E i \in DOMAIN wfs : wfs[i].id = id

\* self.workflows.iter_mut().find(|w| w.id == id): the first match, 0 if none
FindWorkflow(wfs, id) ==
    IF HasWorkflow(wfs, id)
    THEN CHOOSE i \in DOMAIN wfs :
            /\ wfs[i].id = id
            /\ \A j \in 1..(i - 1) : wfs[j].id # id
    ELSE 0

\* ensure_template
EnsureTemplate(wfs, template) ==
    IF HasWorkflow(wfs, template.id) THEN wfs
    ELSE Append(wfs, Workflow(template.id, template.steps, "Active"))

RECURSIVE EnsureTemplates(_, _)
EnsureTemplates(wfs, i) ==
    IF i > Len(BuiltinTemplates) THEN wfs
    ELSE EnsureTemplates(EnsureTemplate(wfs, BuiltinTemplates[i]), i + 1)

\* ensure_builtin_workflows: nothing is done when the dogfood workflow is
\* there
EnsureBuiltin(wfs) ==
    IF HasWorkflow(wfs, BUILTIN_DOGFOOD_WORKFLOW_ID) THEN wfs
    ELSE EnsureTemplates(
            Append(wfs, Workflow(BUILTIN_DOGFOOD_WORKFLOW_ID, 4, "Active")), 1)

\* (mutant) a failed workflow can be run again
CanRunUnlessDraft(workflow) == workflow.status \notin {"Draft", "Paused"}

\* simulate_run: the status check
CanRun(workflow) == workflow.status = "Active"

\* (mutant) the status is left alone on failure
RecordedStatusKept(status, success) == status

\* record_run: the status after the run
RecordedStatus(status, success) == IF ~success THEN "Failed" ELSE status

\* WorkflowRunResult
WorkflowRunResult(workflow_id, success, steps_completed, error) ==
    [workflow_id |-> workflow_id, success |-> success,
     steps_completed |-> steps_completed, error |-> error]

Ok(op, id, value) == [op |-> op, id |-> id, ok |-> TRUE, value |-> value]
Err(op, id) == [op |-> op, id |-> id, ok |-> FALSE, value |-> <<"not found">>]

\* AutomationService::new()
InitAutomation ==
    /\ config = [enable_secret_scan |-> TRUE, enable_vulnerability_check |-> TRUE,
                 enable_pii_detection |-> TRUE, access_policies |-> NoPolicies,
                 user_rules |-> <<>>]
    /\ pii_detections = 0
    /\ secrets_blocked = 0
    /\ threats_caught = 0
    /\ last = NoCall
    /\ ncalls = 0
    /\ IdleThreads
    /\ IdleUncloak
    /\ IdleSerde
    /\ workflows = <<>>
    /\ run_history = <<>>
    /\ outcome = NoCall
    /\ uuids = 0
    /\ marks = [id \in CalledIds |-> "clear"]

ShieldUnchanged ==
    UNCHANGED <<config, counterVars, callVars, threadVars, uncloakVars,
                serdeVars>>

CallCreateWorkflow ==
    /\ outcome = NoCall
    /\ uuids < Len(UuidPool)
    /\ LET id == UuidPool[uuids + 1]
       IN  /\ workflows' = Append(workflows, Workflow(id, 0, "Draft"))
           /\ outcome' = Ok("create_workflow", id, <<>>)
    /\ uuids' = uuids + 1
    /\ UNCHANGED <<run_history, marks>>
    /\ ShieldUnchanged

\* load_from_file in place of new(): serde_json::from_str takes the lists as
\* the file gives them, so a workflow can arrive with the status Completed,
\* which no operation of the service assigns
SavedServices ==
    {[workflows |-> <<Workflow(UuidPool[1], 0, "Completed")>>,
      run_history |-> <<>>]}

CallLoadFromFile ==
    /\ outcome = NoCall
    /\ workflows = <<>> /\ run_history = <<>> /\ uuids = 0
    /\ \E saved \in SavedServices :
          /\ workflows' = saved.workflows
          /\ run_history' = saved.run_history
          /\ uuids' = Len(saved.workflows)
          /\ outcome' = Ok("load_from_file", "", <<>>)
    /\ UNCHANGED marks
    /\ ShieldUnchanged

CallEnsureBuiltinWorkflows ==
    /\ outcome = NoCall
    /\ workflows' = EnsureBuiltin(workflows)
    /\ outcome' = Ok("ensure_builtin_workflows", "", <<>>)
    /\ UNCHANGED <<run_history, uuids, marks>>
    /\ ShieldUnchanged

\* activate_workflow / pause_workflow
SetStatus(op, id, status) ==
    LET i == FindWorkflow(workflows, id)
    IN  IF i = 0
        THEN /\ outcome' = Err(op, id)
             /\ UNCHANGED <<workflows, marks>>
        ELSE /\ workflows' = [workflows EXCEPT ![i].status = status]
             /\ outcome' = Ok(op, id, <<>>)
             /\ marks' = IF status = "Active"
                         THEN [marks EXCEPT ![id] = "clear"] ELSE marks

CallActivateWorkflow ==
    /\ outcome = NoCall
    /\ \E id \in RunIds :
          SetStatus("activate_workflow", id, "Active")
    /\ UNCHANGED <<run_history, uuids>>
    /\ ShieldUnchanged

CallPauseWorkflow ==
    /\ outcome = NoCall
    /\ \E id \in RunIds :
          SetStatus("pause_workflow", id, "Paused")
    /\ UNCHANGED <<run_history, uuids>>
    /\ ShieldUnchanged

CallDeleteWorkflow ==
    /\ outcome = NoCall
    /\ \E id \in CalledIds :
          LET kept == SelectSeq(workflows, LAMBDA w : w.id # id)
          IN  /\ workflows' = kept
              /\ IF Len(kept) = Len(workflows)
                 THEN outcome' = Err("delete_workflow", id) /\ UNCHANGED marks
                 ELSE /\ outcome' = Ok("delete_workflow", id, <<>>)
                      /\ marks' = [marks EXCEPT ![id] =
                                      IF @ = "clear" THEN @ ELSE "deleted"]
    /\ UNCHANGED <<run_history, uuids>>
    /\ ShieldUnchanged

CallSimulateRun ==
    /\ outcome = NoCall
    /\ \E id \in RunIds :
          LET i == FindWorkflow(workflows, id)
          IN  IF i = 0 \/ ~CanRun(workflows[i])
              THEN /\ outcome' = Err("simulate_run", id)
                   /\ UNCHANGED <<workflows, run_history>>
              ELSE LET result == WorkflowRunResult(id, TRUE,
                                                   Len(workflows[i].steps), None)
                   IN  /\ Len(run_history) < MaxRuns
                       /\ workflows' = [workflows EXCEPT
                              ![i].run_count = @ + 1, ![i].last_run = "Some"]
                       /\ run_history' = Append(run_history, result)
                       /\ outcome' = Ok("simulate_run", id, <<result>>)
    /\ UNCHANGED <<uuids, marks>>
    /\ ShieldUnchanged

CallRecordRun ==
    /\ outcome = NoCall
    /\ \E id \in RunIds, success \in BOOLEAN, steps_completed \in {1} :
          LET i == FindWorkflow(workflows, id)
              error == IF success THEN None ELSE Some("step failed")
          IN  IF i = 0
              THEN /\ outcome' = Err("record_run", id)
                   /\ UNCHANGED <<workflows, run_history, marks>>
              ELSE LET result == WorkflowRunResult(id, success, steps_completed,
                                                   error)
                   IN  /\ Len(run_history) < MaxRuns
                       /\ workflows' = [workflows EXCEPT
                              ![i].run_count = @ + 1, ![i].last_run = "Some",
                              ![i].status = RecordedStatus(@, success)]
                       /\ run_history' = Append(run_history, result)
                       /\ outcome' = Ok("record_run", id, <<result>>)
                       /\ marks' = [marks EXCEPT ![id] =
                                       IF success THEN @ ELSE "failed"]
    /\ UNCHANGED uuids
    /\ ShieldUnchanged

\* the caller is done with the value it was handed
DropOutcome ==
    /\ outcome # NoCall
    /\ outcome' = NoCall
    /\ UNCHANGED <<workflows, run_history, uuids, marks>>
    /\ ShieldUnchanged

NextAutomation ==
    \/ CallLoadFromFile
    \/ CallCreateWorkflow
    \/ CallEnsureBuiltinWorkflows
    \/ CallActivateWorkflow
    \/ CallPauseWorkflow
    \/ CallDeleteWorkflow
    \/ CallSimulateRun
    \/ CallRecordRun
    \/ DropOutcome

SpecAutomation == InitAutomation /\ [][NextAutomation]_vars

(* ---------------------------- C12 -------------------------------------- *)
\* C12: the three counters are 0 when the pipeline is constructed, and no
\* step of any call (process_outgoing, process_incoming, uncloak_response, a
\* counter read), in any interleaving, makes one of them smaller.
C12_CountersNeverDecrease ==
    /\ pii_detections = 0 /\ secrets_blocked = 0 /\ threats_caught = 0
    /\ [][/\ pii_detections' >= pii_detections
          /\ secrets_blocked' >= secrets_blocked
          /\ threats_caught' >= threats_caught]_vars

ThreadReturned(t, ops) ==
    /\ threads # <<>>
    /\ threads[t].pc = "done"
    /\ threads[t].call.op \in ops

C12_Witness ==
    /\ ThreadReturned("t1", {"process_incoming"})
    /\ ThreadReturned("t2", CounterReaders)
    /\ threads["t2"].result.value > 0
    /\ pii_detections > 0
    /\ secrets_blocked > 0

(* ---------------------------- C13 -------------------------------------- *)
PipelineOps == {"process_outgoing", "process_incoming"}

\* what the call of thread t does when it runs alone
Alone(t) ==
    LET call == threads[t].call
    IN  CASE call.op = "process_outgoing" ->
               ProcessOutgoing(config, call.text, call.provider)
          [] call.op = "process_incoming" -> ProcessIncoming(config, call.text)
          [] OTHER -> Outcome(NoCall, <<>>, 0, 0, 0)

AllReturned == threads # <<>> /\ \A t \in Threads : threads[t].pc = "done"

\* C13: once all interleaved calls have returned, each counter equals the
\* sum of what the individual calls add to it when run one after another:
\* no increment is lost.
C13_NoLostIncrement ==
    AllReturned =>
        /\ secrets_blocked = Alone("t1").add_secrets + Alone("t2").add_secrets
        /\ threats_caught = Alone("t1").add_threats + Alone("t2").add_threats
        /\ pii_detections = Alone("t1").add_pii + Alone("t2").add_pii

C13_Witness ==
    /\ AllReturned
    /\ threads["t1"].call.op = "process_incoming"
    /\ threads["t2"].call.op = "process_outgoing"
    /\ Alone("t1").add_pii = 1
    /\ Alone("t2").add_pii = 1
    /\ Alone("t1").add_threats = 1
    /\ pii_detections = 2

(* ---------------------------- C14 -------------------------------------- *)
\* C14: the action and the findings a process_outgoing or process_incoming
\* call returns are those of the same call run alone on the same
\* configuration, whatever the other thread is doing and whatever the
\* counters hold.
C14_CallsDoNotInterfere ==
    threads # <<>> =>
        \A t \in Threads :
            (threads[t].pc = "done" /\ threads[t].call.op \in PipelineOps) =>
                threads[t].result = Alone(t).result

C14_Witness ==
    /\ ThreadReturned("t1", {"process_outgoing"})
    /\ threads["t1"].result.action.kind = "CloakAndAllow"
    /\ threads["t2"].pc = "in_pii"
    /\ threads["t2"].call.text # threads["t1"].call.text
    /\ threads["t2"].secrets_found # <<>>
    /\ secrets_blocked > 0
    /\ pii_detections > 0

(* ---------------------------- C15 -------------------------------------- *)
Occurs(p, s) ==
    \E i \in 1..(Len(s) - Len(p) + 1) : SubSeq(s, i, i + Len(p) - 1) = p

Chars(s) == {s[i] : i \in DOMAIN s}

\* response with every occurrence of a placeholder replaced by its original
\* in one pass from the left, the rest copied
RECURSIVE Substituted(_, _)
Substituted(s, cloak_map) ==
    IF s = <<>> THEN <<>>
    ELSE LET here == {i \in DOMAIN cloak_map :
                         /\ cloak_map[i][1] # <<>>
                         /\ Len(cloak_map[i][1]) <= Len(s)
                         /\ SubSeq(s, 1, Len(cloak_map[i][1])) = cloak_map[i][1]}
         IN  IF here = {} THEN <<Head(s)>> \o Substituted(Tail(s), cloak_map)
             ELSE LET i == CHOOSE i \in here : \A j \in here : i <= j
                  IN  cloak_map[i][2]
                      \o Substituted(SubSeq(s, Len(cloak_map[i][1]) + 1, Len(s)),
                                     cloak_map)

\* u and v can overlap in a text: one contains the other, or an end of one
\* is the beginning of the other
EndMeetsStart(u, v) ==
    \E k \in 1..Len(u) :
        k <= Len(v) /\ SubSeq(u, Len(u) - k + 1, Len(u)) = SubSeq(v, 1, k)

Overlap(u, v) ==
    Occurs(u, v) \/ Occurs(v, u) \/ EndMeetsStart(u, v) \/ EndMeetsStart(v, u)

\* the replacements cannot overlap or re-trigger each other: no placeholder
\* and no original is empty, and no placeholder can overlap another
\* placeholder or an original
Separated(cloak_map) ==
    \A i \in DOMAIN cloak_map :
        /\ cloak_map[i][1] # <<>>
        /\ cloak_map[i][2] # <<>>
        /\ \A j \in DOMAIN cloak_map :
              /\ ~Overlap(cloak_map[i][1], cloak_map[j][2])
              /\ i # j => ~Overlap(cloak_map[i][1], cloak_map[j][1])

NoPlaceholderIn(s, cloak_map) ==
    \A i \in DOMAIN cloak_map : ~Occurs(cloak_map[i][1], s)

\* the round trip of the claim: cloak(text), placeholders not in text,
\* originals holding no placeholder
RoundTripCase ==
    /\ uncloaked.op = "cloak"
    /\ NoPlaceholderIn(uncloaked.text, uncloaked.context.cloak_map)
    /\ \A i \in DOMAIN uncloaked.context.cloak_map :
          NoPlaceholderIn(uncloaked.context.cloak_map[i][2],
                          uncloaked.context.cloak_map)

\* C15 as stated: for every response and every cloak map (of non-empty
\* placeholders) the result is the response with every occurrence of every placeholder replaced by its
\* original, all other text unchanged; and the round trip gives the text
\* back.
C15_EveryPlaceholderReplaced ==
    /\ (/\ uncloaked # NoCall
        /\ \A i \in DOMAIN uncloaked.context.cloak_map :
              uncloaked.context.cloak_map[i][1] # <<>>) =>
          uncloaked.result
             = Substituted(uncloaked.response, uncloaked.context.cloak_map)
    /\ RoundTripCase => uncloaked.result = uncloaked.text

\* C15 (amended): uncloak_response applies one replace-all per pair of the
\* map, in iteration order, each to the output of the one before.  The result
\* is the response with every occurrence of every placeholder replaced by
\* its original and the rest unchanged provided no placeholder and no
\* original is empty and no placeholder can overlap another placeholder or
\* an original; a response holding no placeholder, or an empty map, gives the
\* response back.  Round trip: for a CloakedText produced by cloak(text)
\* whose placeholders do not occur in text and whose originals hold no
\* placeholder, uncloak_response(cloaked.text, cloaked) is text.
C15_UncloakWhenSeparated ==
    /\ uncloaked # NoCall =>
          LET cloak_map == uncloaked.context.cloak_map
          IN  /\ Separated(cloak_map) =>
                    uncloaked.result = Substituted(uncloaked.response, cloak_map)
              /\ (cloak_map = <<>> \/ NoPlaceholderIn(uncloaked.response, cloak_map))
                    => uncloaked.result = uncloaked.response
    /\ RoundTripCase => uncloaked.result = uncloaked.text

C15_Witness ==
    /\ RoundTripCase
    /\ Len(uncloaked.context.cloak_map) = 2
    /\ Separated(uncloaked.context.cloak_map)
    /\ Len(uncloaked.text) = 3
    /\ "#" \in Chars(uncloaked.text)
    /\ uncloaked.result = uncloaked.text
    /\ uncloaked.result # uncloaked.response

(* ---------------------------- C16 -------------------------------------- *)
EmptyDocument == \A f \in SerdeFields : parsed.doc[f] = <<>>

\* C16: deserializing the empty document gives the three toggles true and
\* empty access_policies and user_rules; in any partial document every
\* absent field takes the value of ShieldConfig::default() and every present
\* field keeps the document's value.
C16_DefaultFill ==
    parsed # NoCall =>
        /\ EmptyDocument =>
              /\ parsed.config.enable_secret_scan = TRUE
              /\ parsed.config.enable_vulnerability_check = TRUE
              /\ parsed.config.enable_pii_detection = TRUE
              /\ DOMAIN parsed.config.access_policies = {}
              /\ Len(parsed.config.user_rules) = 0
        /\ \A f \in {"enable_secret_scan", "enable_vulnerability_check",
                      "enable_pii_detection"} :
              parsed.doc[f] = <<>> => parsed.config[f] = TRUE
        /\ parsed.doc.access_policies = <<>> =>
              DOMAIN parsed.config.access_policies = {}
        /\ parsed.doc.user_rules = <<>> => Len(parsed.config.user_rules) = 0
        /\ \A f \in SerdeFields :
              parsed.doc[f] # <<>> => parsed.config[f] = parsed.doc[f][1]

C16_Witness ==
    /\ parsed # NoCall
    /\ parsed.doc.enable_pii_detection = <<FALSE>>
    /\ parsed.doc.enable_secret_scan = <<>>
    /\ parsed.doc.enable_vulnerability_check = <<>>
    /\ parsed.doc.access_policies = <<>>
    /\ parsed.doc.user_rules = <<(<<Rule("A")>>)>>
    /\ parsed.config.enable_pii_detection = FALSE
    /\ parsed.config.enable_secret_scan = TRUE
    /\ Len(parsed.config.user_rules) = 1

(* ---------------------------- C17 -------------------------------------- *)
\* a ShieldResult whose action is exactly one of the four variants
IsShieldResult(r) ==
    /\ DOMAIN r = {"action", "pii_found", "secrets_found", "assessment"}
    /\ \/ r.action = [kind |-> "Allow"]
       \/ /\ DOMAIN r.action = {"kind", "cloaked"}
          /\ r.action.kind = "CloakAndAllow"
       \/ /\ DOMAIN r.action = {"kind", "reason"}
          /\ r.action.kind \in {"Block", "Warn"}

\* C17: for every text, provider and configuration (invalid rule patterns,
\* an unconfigured provider and the empty text included) process_outgoing
\* and process_incoming return a ShieldResult whose action is exactly one of
\* Allow, CloakAndAllow, Block, Warn; nothing else comes out of a call.
C17_AlwaysAShieldResult ==
    /\ (IsOutgoing \/ IsIncoming) => IsShieldResult(last.result)
    /\ (last = NoCall /\ ncalls = 0) =>
          \A text \in Texts :
              /\ IsShieldResult(ProcessIncoming(config, text).result)
              /\ \A provider \in Providers :
                    IsShieldResult(ProcessOutgoing(config, text, provider).result)

C17_Witness ==
    /\ IsOutgoing
    /\ TextSize(last.text) = 0
    /\ last.provider = "unlisted"
    /\ \E i \in DOMAIN config.user_rules : IsInvalidRule(config.user_rules[i])
    /\ IsShieldResult(last.result)
    /\ last.result.action.kind = "Allow"

(* ---------------------------- C18 -------------------------------------- *)
\* the workflow with this id, in a list where it occurs
WorkflowOf(wfs, id) == wfs[CHOOSE i \in DOMAIN wfs : wfs[i].id = id]

\* C18: simulate_run succeeds exactly when the id is that of a workflow whose
\* status is Active; it then adds 1 to that workflow's run_count, sets its
\* last_run and appends one successful result with steps_completed = the
\* number of steps to run_history; otherwise it returns an error and leaves
\* every workflow and the run history as they were.
C18_SimulateRun ==
    [][outcome'.op = "simulate_run" =>
         LET id == outcome'.id
             active == \E i \in DOMAIN workflows :
                          workflows[i].id = id /\ workflows[i].status = "Active"
         IN  /\ outcome'.ok <=> active
             /\ outcome'.ok =>
                   /\ DOMAIN workflows' = DOMAIN workflows
                   /\ \A i \in DOMAIN workflows :
                         workflows'[i] =
                            IF workflows[i].id = id
                            THEN [workflows[i] EXCEPT
                                     !.run_count = workflows[i].run_count + 1,
                                     !.last_run = "Some"]
                            ELSE workflows[i]
                   /\ run_history' =
                         run_history \o
                         <<[workflow_id |-> id, success |-> TRUE,
                            steps_completed |-> Len(WorkflowOf(workflows, id).steps),
                            error |-> <<>>]>>
             /\ ~outcome'.ok =>
                   workflows' = workflows /\ run_history' = run_history]_vars

C18_Witness ==
    /\ outcome.op = "simulate_run"
    /\ outcome.ok
    /\ outcome.id = BUILTIN_DOGFOOD_WORKFLOW_ID
    /\ WorkflowOf(workflows, outcome.id).run_count = 2
    /\ Len(run_history) = 2
    /\ run_history[2].steps_completed = 4
    /\ \E i \in DOMAIN workflows : workflows[i].status = "Draft"

(* ---------------------------- C19 -------------------------------------- *)
\* record_run sets Failed on failure and leaves the status on success
RecordRunStatus ==
    (outcome'.op = "record_run" /\ outcome'.ok) =>
        WorkflowOf(workflows', outcome'.id).status =
           IF outcome'.value[1].success
           THEN WorkflowOf(workflows, outcome'.id).status
           ELSE "Failed"

\* C19 as stated: record_run with success = false sets the status to Failed
\* whatever it was, with success = true leaves it; after a failed record_run
\* every simulate_run on that id is refused until activate_workflow is called
\* on it.
C19_RefusedUntilActivated ==
    [][/\ RecordRunStatus
       /\ (outcome'.op = "simulate_run" /\ marks[outcome'.id] # "clear")
             => ~outcome'.ok]_vars

\* C19 (amended): record_run with success = false sets the status to Failed
\* whatever it was, with success = true leaves it; after a failed record_run
\* every simulate_run on that workflow is refused until activate_workflow is
\* called on it or the workflow is deleted (a built-in workflow deleted and
\* re-created under the same id by ensure_builtin_workflows is Active again).
C19_RefusedUntilActivatedOrDeleted ==
    [][/\ RecordRunStatus
       /\ (outcome'.op = "simulate_run" /\ marks[outcome'.id] = "failed")
             => ~outcome'.ok]_vars

C19_Witness ==
    /\ outcome.op = "simulate_run"
    /\ ~outcome.ok
    /\ marks[outcome.id] = "failed"
    /\ WorkflowOf(workflows, outcome.id).status = "Paused"
    /\ Len(run_history) = 2
    /\ run_history[1].success
    /\ ~run_history[2].success
    /\ run_history[2].workflow_id = outcome.id

(* ---------------------------- C20 -------------------------------------- *)
\* C20: after ensure_builtin_workflows, called in any reachable state, every
\* built-in workflow id is present exactly once, and a second call in a row
\* changes nothing.
C20_EnsureRestoresBuiltins ==
    outcome.op = "ensure_builtin_workflows" =>
        /\ \A id \in BuiltinIds :
              Cardinality({i \in DOMAIN workflows : workflows[i].id = id}) = 1
        /\ EnsureBuiltin(workflows) = workflows

(* ---------------------------- C21 -------------------------------------- *)
\* what the step of a call adds to each counter
AddedSecrets == secrets_blocked' - secrets_blocked
AddedThreats == threats_caught' - threats_caught
AddedPii == pii_detections' - pii_detections

IsThreatBlockOf(result) ==
    /\ result.action.kind = "Block"
    /\ Head(result.action.reason) = "Prompt blocked: threat level '"

IsRuleBlockOf(result) ==
    /\ result.action.kind = "Block"
    /\ Head(result.action.reason) = "Blocked by custom rule: "

IsSecretsBlockOf(result) == result.action = Block(SecretsReason)

\* C21: one process_outgoing call adds the number of secret matches to
\* secrets_blocked and nothing else when it blocks on secrets, nothing when
\* it blocks on a custom rule, 1 to threats_caught and nothing else when it
\* blocks on the threat assessment, and in every other case (policy Block,
\* CloakAndAllow, Warn, Allow) the number of PII matches to pii_detections
\* and nothing else.
C21_OutgoingCounterEffect ==
    [][(last = NoCall /\ last'.op = "process_outgoing") =>
          LET r == last'.result
          IN  CASE IsSecretsBlockOf(r) ->
                     /\ AddedSecrets = last'.text.secrets
                     /\ AddedSecrets = Len(r.secrets_found)
                     /\ AddedThreats = 0
                     /\ AddedPii = 0
                [] IsRuleBlockOf(r) ->
                     AddedSecrets = 0 /\ AddedThreats = 0 /\ AddedPii = 0
                [] IsThreatBlockOf(r) ->
                     AddedSecrets = 0 /\ AddedThreats = 1 /\ AddedPii = 0
                [] OTHER ->
                     /\ r.action.kind \in {"Block", "CloakAndAllow", "Warn", "Allow"}
                     /\ AddedSecrets = 0
                     /\ AddedThreats = 0
                     /\ AddedPii = Len(r.pii_found)
                     /\ AddedPii = (IF config.enable_pii_detection
                                    THEN last'.text.pii ELSE 0)]_vars

\* a policy Block on a message with two PII matches: both are counted
C21_Witness ==
    /\ IsOutgoing
    /\ last.result.action.kind = "Block"
    /\ PolicyCalls # {}
    /\ ~PolicyCall.decision.allowed
    /\ Len(last.result.pii_found) = 2
    /\ pii_detections = 2
    /\ secrets_blocked = 0
    /\ threats_caught = 0

(* ---------------------------- C22 -------------------------------------- *)
\* C22: process_incoming does not short-circuit: one call adds the number of
\* secret matches to secrets_blocked, the number of PII matches to
\* pii_detections and 1 to threats_caught if the assessment is unsafe, each
\* whatever the other findings, and the result carries secrets_found,
\* pii_found and the assessment together.
C22_IncomingCountsEverything ==
    [][(last = NoCall /\ last'.op = "process_incoming") =>
          LET r == last'.result
          IN  /\ r.secrets_found =
                    (IF config.enable_secret_scan
                     THEN ScanText(last'.text) ELSE <<>>)
              /\ r.pii_found = Detect(last'.text)
              /\ r.assessment =
                    (IF config.enable_vulnerability_check
                     THEN Some(AssessResponse(last'.text)) ELSE None)
              /\ AddedSecrets = Len(r.secrets_found)
              /\ AddedPii = Len(r.pii_found)
              /\ AddedThreats = (IF Unsafe(r.assessment) THEN 1 ELSE 0)]_vars

\* a response with a secret, a PII match and an injection: all three counted
C22_Witness ==
    /\ IsIncoming
    /\ Len(last.result.secrets_found) = 1
    /\ Len(last.result.pii_found) = 1
    /\ Unsafe(last.result.assessment)
    /\ secrets_blocked = 1
    /\ pii_detections = 1
    /\ threats_caught = 1

(* ---------------------------- C23 -------------------------------------- *)
ShieldResultFields == {"action", "pii_found", "secrets_found", "assessment"}

\* C23: every early Block is a fully populated ShieldResult whose fields of
\* the inspectors that did not run are empty: a secrets Block has an empty
\* pii_found and no assessment; a custom-rule Block has empty pii_found and
\* secrets_found and no assessment; a threat Block has empty pii_found and
\* secrets_found and the unsafe assessment attached.
C23_EarlyBlockPopulated ==
    IsOutgoing =>
        /\ DOMAIN last.result = ShieldResultFields
        /\ IsSecretsBlockOf(last.result) =>
              /\ last.result.secrets_found = ScanText(last.text)
              /\ last.result.pii_found = <<>>
              /\ last.result.assessment = None
        /\ IsRuleBlockOf(last.result) =>
              /\ last.result.pii_found = <<>>
              /\ last.result.secrets_found = <<>>
              /\ last.result.assessment = None
        /\ IsThreatBlockOf(last.result) =>
              /\ last.result.pii_found = <<>>
              /\ last.result.secrets_found = <<>>
              /\ last.result.assessment = Some(AssessPrompt(last.text))
              /\ Unsafe(last.result.assessment)
        /\ SecretStageBlocks => IsSecretsBlockOf(last.result)
        /\ RuleStageBlocks => IsRuleBlockOf(last.result)
        /\ ThreatStageBlocks => IsThreatBlockOf(last.result)

\* a threat Block on a message that also holds PII the detector would find
C23_Witness ==
    /\ IsOutgoing
    /\ ThreatStageBlocks
    /\ config.enable_pii_detection
    /\ last.text.pii > 0
    /\ IsThreatBlockOf(last.result)
    /\ last.result.pii_found = <<>>
    /\ last.result.assessment # None

(* ---------------------------- C24 -------------------------------------- *)
\* thread t takes a step of uncloak_response or of a counter reader
ReadOnlyStep(t) ==
    /\ threads'[t] # threads[t]
    /\ \/ threads[t].pc \in {"load", "uncloak"}
       \/ threads'[t].pc \in {"load", "uncloak"}
       \/ "read" \in DOMAIN threads'[t] /\ "read" \notin DOMAIN threads[t]

\* C24: no step of any call, in any interleaving of process_outgoing,
\* process_incoming, uncloak_response and counter reads, changes the
\* configuration of the instance; the counters are the only state of the
\* instance that changes, and no step of uncloak_response or of a counter
\* reader changes them.
C24_OnlyCountersChange ==
    [][/\ config' = config
       /\ \A t \in Threads : ReadOnlyStep(t) => UNCHANGED counterVars]_vars

\* every kind of call has been made on a configuration with rules and
\* policies, and the counters have moved
C24_Witness ==
    /\ ThreadReturned("t1", {"process_incoming"})
    /\ "read" \in DOMAIN threads["t1"]
    /\ threads["t1"].seen > 0
    /\ ThreadReturned("t2", {"uncloak_response"})
    /\ config.user_rules # <<>>
    /\ config.access_policies = TestPolicies
    /\ secrets_blocked > 0
    /\ threats_caught > 0

(* ---------------------------- C25 -------------------------------------- *)
\* the entries of a map in the opposite iteration order
Reversed(cloak_map) ==
    [i \in DOMAIN cloak_map |-> cloak_map[Len(cloak_map) + 1 - i]]

\* no original holds a placeholder, no placeholder overlaps another one
OriginalsHoldNoPlaceholder(cloak_map) ==
    \A i \in DOMAIN cloak_map :
        /\ NoPlaceholderIn(cloak_map[i][2], cloak_map)
        /\ \A j \in DOMAIN cloak_map :
              i # j => ~Overlap(cloak_map[i][1], cloak_map[j][1])

\* C25 as stated: provided no original value contains a placeholder and no
\* placeholder overlaps another placeholder, applying the replacements of
\* the map in any order gives the same restored text.
C25_AnyOrder ==
    (/\ uncloaked.op = "uncloak_response"
     /\ OriginalsHoldNoPlaceholder(uncloaked.context.cloak_map)) =>
        uncloaked.result =
           UncloakLoop(uncloaked.response,
                       Reversed(uncloaked.context.cloak_map), 1)

\* C25 (amended): uncloak_response is a function of the response and the
\* map; provided no placeholder and no original is empty and no placeholder
\* can overlap another placeholder or an original (neither contains the
\* other, no end of one is the beginning of the other), applying the
\* replacements of the map in any order gives the same restored text.
C25_AnyOrderWhenSeparated ==
    (/\ uncloaked.op = "uncloak_response"
     /\ Separated(uncloaked.context.cloak_map)) =>
        /\ uncloaked.result =
              UncloakLoop(uncloaked.response,
                          Reversed(uncloaked.context.cloak_map), 1)
        /\ uncloaked.result =
              UncloakResponse(uncloaked.response, uncloaked.context)

\* both placeholders of a two-entry map occur in the response
C25_Witness ==
    /\ uncloaked.op = "uncloak_response"
    /\ Len(uncloaked.context.cloak_map) = 2
    /\ Separated(uncloaked.context.cloak_map)
    /\ \A i \in {1, 2} :
          Occurs(uncloaked.context.cloak_map[i][1], uncloaked.response)
    /\ Len(uncloaked.response) = 3
    /\ uncloaked.result # uncloaked.response

(* ---------------------------- C26 -------------------------------------- *)
\* the call of the step just taken, run under another configuration
Rerun(cfg) ==
    IF last'.op = "process_outgoing"
    THEN ProcessOutgoing(cfg, last'.text, last'.provider)
    ELSE ProcessIncoming(cfg, last'.text)

\* the step just taken returned and counted what out says
SameAsTaken(out) ==
    /\ last'.result.action = out.result.action
    /\ last'.result.pii_found = out.result.pii_found
    /\ last'.result.secrets_found = out.result.secrets_found
    /\ AddedSecrets = out.add_secrets
    /\ AddedThreats = out.add_threats
    /\ AddedPii = out.add_pii

\* C26: an inspector that finds nothing is treated as a disabled one: on a
\* text without secret matches process_outgoing and process_incoming give
\* the same action, pii_found, secrets_found and counter changes with
\* enable_secret_scan on and off, and on a text without PII matches with
\* enable_pii_detection on and off.
C26_EmptyFindingAsDisabled ==
    [][(last = NoCall /\ last'.op \in PipelineOps) =>
          /\ last'.text.secrets = 0 =>
                /\ SameAsTaken(Rerun([config EXCEPT !.enable_secret_scan = TRUE]))
                /\ SameAsTaken(Rerun([config EXCEPT !.enable_secret_scan = FALSE]))
          /\ last'.text.pii = 0 =>
                /\ SameAsTaken(Rerun([config EXCEPT !.enable_pii_detection = TRUE]))
                /\ SameAsTaken(Rerun([config EXCEPT !.enable_pii_detection = FALSE]))]_vars

\* both inspectors ran on a message and found nothing
C26_Witness ==
    /\ IsOutgoing
    /\ config.enable_secret_scan
    /\ config.enable_pii_detection
    /\ last.text.secrets = 0
    /\ last.text.pii = 0
    /\ {"scan_text", "detect"} \subseteq Fns
    /\ last.result.action = Allow
    /\ last.result.pii_found = <<>>
    /\ last.result.secrets_found = <<>>

(* ---------------------------- C27 -------------------------------------- *)
\* the last call under the rule list in the opposite order (the other
\* permutation of a list of two)
UnderReversedRules ==
    ProcessOutgoing([config EXCEPT !.user_rules = Reversed(@)],
                    last.text, last.provider).result

\* C27: whether process_outgoing blocks on a custom rule does not depend on
\* the order of config.user_rules: the call is blocked by a custom rule
\* under one order iff it is under the other; only the rule named in the
\* reason may differ, and a call no rule blocks returns the same result.
C27_RuleOrderIndependent ==
    IsOutgoing =>
        /\ IsRuleBlockOf(last.result) <=> IsRuleBlockOf(UnderReversedRules)
        /\ [last.result EXCEPT !.action = Allow]
              = [UnderReversedRules EXCEPT !.action = Allow]
        /\ ~IsRuleBlockOf(last.result) => last.result = UnderReversedRules
        /\ IsRuleBlockOf(last.result) =>
              \E i \in DOMAIN config.user_rules :
                 UnderReversedRules.action
                    = Block(RuleReason(config.user_rules[i].name))

\* two rules match: each order blocks, naming a different rule
C27_Witness ==
    /\ IsOutgoing
    /\ Len(config.user_rules) = 2
    /\ Hits = {1, 2}
    /\ config.user_rules[1].name # config.user_rules[2].name
    /\ last.result.action = Block(RuleReason(config.user_rules[1].name))
    /\ UnderReversedRules.action = Block(RuleReason(config.user_rules[2].name))

(* ---------------------------- C28 -------------------------------------- *)
Other(t) == CHOOSE u \in Threads : u # t

\* what the whole of a call adds to the counter that reader op reads
Increment(call, op) ==
    LET out == CASE call.op = "process_outgoing" ->
                      ProcessOutgoing(config, call.text, call.provider)
                 [] call.op = "process_incoming" ->
                      ProcessIncoming(config, call.text)
                 [] OTHER -> Outcome(NoCall, <<>>, 0, 0, 0)
    IN  CASE op = "pii_detection_count" -> out.add_pii
          [] op = "secrets_blocked_count" -> out.add_secrets
          [] op = "threats_caught_count" -> out.add_threats

ReturnedIncrement(u, op) ==
    IF threads[u].pc = "done" THEN Increment(threads[u].call, op) ELSE 0

BegunIncrement(u, op) ==
    IF threads[u].pc = "idle" THEN 0 ELSE Increment(threads[u].call, op)

\* the steps of thread t inside a call
ThreadStep(t) ==
    \/ OutSecretsStep(t) \/ OutThreatStep(t) \/ OutPiiStep(t)
    \/ InSecretsStep(t) \/ InPiiStep(t) \/ InThreatsStep(t)
    \/ LoadStep(t) \/ UncloakStep(t)

\* C28: a counter read never blocks and never delays a writer (every thread
\* inside a call can take its next step whatever the other thread is doing,
\* and a read leaves the other thread and the counters as they are); the
\* value v it returns satisfies: sum of the counter's increments by calls
\* that have returned <= v <= sum of its increments by all calls begun; a
\* thread reading right after its own call returned sees that call's
\* increment.
C28_ReadBounds ==
    /\ [](\A t \in Threads :
             threads[t].pc \notin {"idle", "done"} => ENABLED ThreadStep(t))
    /\ [][\A t \in Threads :
             /\ (threads[t].pc = "load" /\ threads'[t].pc = "done") =>
                   LET op == threads[t].call.op
                       v == threads'[t].result.value
                   IN  /\ ReturnedIncrement(Other(t), op) <= v
                       /\ v <= BegunIncrement(Other(t), op)
                       /\ threads'[Other(t)] = threads[Other(t)]
                       /\ UNCHANGED counterVars
             /\ ("read" \in DOMAIN threads'[t] /\ "read" \notin DOMAIN threads[t]) =>
                   LET op == threads'[t].read
                       v == threads'[t].seen
                       own == Increment(threads[t].call, op)
                   IN  /\ own <= v
                       /\ own + ReturnedIncrement(Other(t), op) <= v
                       /\ v <= own + BegunIncrement(Other(t), op)
                       /\ threads'[Other(t)] = threads[Other(t)]
                       /\ UNCHANGED counterVars]_vars

\* t1 read the threats counter right after its own unsafe response was
\* counted, while t2 was inside a call that had not yet counted its own
C28_Witness ==
    /\ ThreadReturned("t1", {"process_incoming"})
    /\ "read" \in DOMAIN threads["t1"]
    /\ threads["t1"].read = "threats_caught_count"
    /\ threads["t1"].seen = 1
    /\ threads["t2"].pc = "in_threats"
    /\ Unsafe(threads["t2"].assessment)
    /\ threats_caught = 1

(* ---------------------------- C29 -------------------------------------- *)
\* C29: in every process_outgoing result secrets_found is non-empty iff the
\* action is the secrets Block; every Allow, Warn, CloakAndAllow, custom-rule
\* Block, threat Block and policy Block carries an empty secrets_found.
C29_SecretsOnlyOnSecretsBlock ==
    IsOutgoing =>
        /\ last.result.secrets_found # <<>> <=> IsSecretsBlockOf(last.result)
        /\ (\/ last.result.action.kind \in {"Allow", "Warn", "CloakAndAllow"}
            \/ IsRuleBlockOf(last.result)
            \/ IsThreatBlockOf(last.result)
            \/ (PolicyCalls # {} /\ ~PolicyCall.decision.allowed))
              => last.result.secrets_found = <<>>

\* a text with a secret passes unscanned and is blocked by the policy
C29_Witness ==
    /\ IsOutgoing
    /\ ~config.enable_secret_scan
    /\ HasSecret
    /\ PolicyCalls # {}
    /\ ~PolicyCall.decision.allowed
    /\ last.result.action.kind = "Block"
    /\ last.result.secrets_found = <<>>

(* ---------------------------- C30 -------------------------------------- *)
\* get_run_history(workflow_id, limit) with limit >= the length of the
\* history: the entries carrying the id
RunsOf(id) == SelectSeq(run_history, LAMBDA r : r.workflow_id = id)

\* C30: for every workflow present in the service, run_count is the number
\* of run_history entries carrying its id, after any sequence of the
\* service's operations, deleting a built-in workflow and re-creating it
\* under the same id included.
C30_RunCountMatchesHistory ==
    \A i \in DOMAIN workflows :
        workflows[i].run_count = Len(RunsOf(workflows[i].id))

====
